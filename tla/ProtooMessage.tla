--------------------------- MODULE ProtooMessage ---------------------------
(***************************************************************************)
(* protoo::Message (client/src/Message.cpp), and how the receivers read    *)
(* what it parsed: Peer::onMessage with its handlers, and the notification *)
(* handler of RTM::connect.  A text goes from the wire through parse to a  *)
(* handler; a request may be answered with accept or reject, whose         *)
(* response then goes the same way at the other end.                       *)
(*                                                                         *)
(* Reading a JSON value as another type throws, and nothing between        *)
(* lws_service and these reads catches.  Which of them can throw?          *)
(***************************************************************************)
EXTENDS Naturals

CONSTANTS
  Number,   \* the numbers a text may hold
  IntRange  \* how many of them an int tells apart: get<int> wraps around

ASSUME MessageAssumption == Number \subseteq Nat /\ IntRange \in Nat \ {0}

VARIABLES
  place,   \* where the message is: wire, peer, rtm, handled, threw
  json,    \* the text on the wire, afterwards the parsed message
  origin,  \* who made the text
  asked,   \* the id it was made with
  outcome  \* what it was taken for, or which read threw

messageVars == <<place, json, origin, asked, outcome>>

(* A JSON value by its type.  A field of the message that is absent is     *)
(* null, as operator[] reads it.  The fields of data that RTM looks at     *)
(* stand beside it, where find tells an absent one from one that is null.  *)
DataField == {"data", "channelId", "peerId", "msg"}
Field == {"request", "response", "notification", "id", "method", "ok",
          "errorCode", "errorReason"} \cup DataField

Json(t, v) == [type |-> t, val |-> v]
Null   == Json("null", 0)
Absent == Json("absent", 0)
True   == Json("boolean", 1)
False  == Json("boolean", 0)
Object == Json("object", 0)
Num(n) == Json("number", n)
Str(s) == Json("string", s)
Blank  == [f \in Field |-> Null]

(* The methods RTM tells apart, as the values of strings.                  *)
ChannelMsgText == 1
MemberJoin     == 2
MemberLeave    == 3
OtherMethod    == 4

IsBoolean(v) == v.type = "boolean"
IsString(v)  == v.type = "string"
IsInt(v)     == v.type \in {"number", "boolean"}  \* what get<int> accepts

(* A slip of the one below: the number is read with all its digits.        *)
GetIntWide(v) == Num(v.val)

GetInt(v) == Num(v.val % IntRange)

Taken  == {"none", "value", "error", "request", "invalid", "ignored", "message", "presence"}
Thrown == {"parse", "peer", "rtm"}

MessageTypeOK ==
  /\ place \in {"wire", "peer", "rtm", "handled", "threw"}
  /\ json \in [Field -> [type : {"absent", "null", "boolean", "number", "string",
                                   "object"},
                         val  : Nat]]
  /\ (place = "peer" /\ json["id"] # Null /\ json["notification"] = Null)
        => json["id"].val \in 0 .. IntRange - 1
  /\ origin \in {"garbage", "anyone", "request", "notify", "accept", "reject"}
  /\ asked \in Number
  /\ outcome \in Taken \cup Thrown

-----------------------------------------------------------------------------
(* Message. *)

CreateRequest(i) ==
  [Blank EXCEPT !["request"] = True, !["id"] = Num(i), !["method"] = Str(OtherMethod),
                !["data"] = Object]

CreateSuccessResponse(request) ==
  [Blank EXCEPT !["response"] = True, !["id"] = GetInt(request["id"]), !["ok"] = True,
                !["data"] = Str(0)]

(* A slip: an error without its reason.                                    *)
CreateErrorResponseBare(request) ==
  [Blank EXCEPT !["response"] = True, !["id"] = GetInt(request["id"]), !["ok"] = False]

CreateErrorResponse(request) ==
  [Blank EXCEPT !["response"] = True, !["id"] = GetInt(request["id"]), !["ok"] = False,
                !["errorCode"] = Num(0), !["errorReason"] = Str(0)]

(* As RTM publishes: data without a peerId.                                *)
CreateNotification ==
  [Blank EXCEPT !["notification"] = True, !["method"] = Str(ChannelMsgText),
                !["data"] = Object, !["channelId"] = Str(0), !["peerId"] = Absent,
                !["msg"] = Str(0)]

Copy(o, S) == [f \in Field |-> IF f \in S THEN o[f] ELSE Null]

(* A slip of the one below: ok is copied whatever it is.                   *)
OkFieldsAnyType(o) == {"ok"} \cup DataField

(* ok is copied only if it is a boolean, and what goes with it then.       *)
OkFields(o) ==
  CASE o["ok"] = True  -> {"ok"} \cup DataField
    [] o["ok"] = False -> {"ok", "errorCode", "errorReason"}
    [] OTHER           -> {}

(* What parse makes of an object; a notification is copied as it is.       *)
Parsed(o) ==
  IF IsBoolean(o["request"])
    THEN [Copy(o, {"method"} \cup DataField)
            EXCEPT !["request"] = True, !["id"] = GetInt(o["id"])]
  ELSE IF IsBoolean(o["response"])
    THEN [Copy(o, OkFields(o)) EXCEPT !["response"] = True, !["id"] = GetInt(o["id"])]
  ELSE IF IsBoolean(o["notification"])
    THEN [Copy(o, {"id", "method"} \cup DataField) EXCEPT !["notification"] = True]
  ELSE Blank

(* The reads of parse that throw.                                          *)
ParseThrows(o) ==
  IF IsBoolean(o["request"])
    THEN ~IsInt(o["id"]) \/ ~IsString(o["method"])
    ELSE /\ IsBoolean(o["response"])
         /\ \/ ~IsInt(o["id"])
            \/ o["ok"] = False /\ (~IsInt(o["errorCode"]) \/ ~IsString(o["errorReason"]))

-----------------------------------------------------------------------------
(* The texts that arrive: any object, what Message creates, and what is    *)
(* not an object at all.                                                   *)
SomeObject ==
  \E kinds \in SUBSET {"request", "response", "notification"},
     id \in {Null, Str(0), True} \cup {Num(n) : n \in Number},
     method \in {Null} \cup {Str(s) : s \in ChannelMsgText .. OtherMethod},
     ok \in {Null, True, False, Str(0)}, code \in {Null, Num(0)}, reason \in {Null, Str(0)},
     data \in {Null, Object}, fields \in [DataField \ {"data"} -> {Absent, Null, Str(0), Num(0)}] :
    /\ IsInt(id) => asked = id.val
    /\ data = Null => \A f \in DOMAIN fields : fields[f] = Absent
    /\ json = [f \in Field |->
         CASE f \in {"request", "response", "notification"} ->
                IF f \in kinds THEN True ELSE Null
           [] f = "id" -> id         [] f = "method" -> method
           [] f = "ok" -> ok         [] f = "errorCode" -> code
           [] f = "data" -> data     [] f = "errorReason" -> reason
           [] OTHER -> fields[f]]

MessageInit ==
  /\ place = "wire" /\ outcome = "none" /\ asked \in Number
  /\ \/ origin = "garbage" /\ json = Blank
     \/ origin = "anyone" /\ SomeObject
     \/ origin = "request" /\ json = CreateRequest(asked)
     \/ origin = "notify" /\ json = CreateNotification

Throws(where) ==
  /\ place' = "threw" /\ outcome' = where
  /\ UNCHANGED <<json, origin, asked>>

Handled(as) ==
  /\ place' = "handled" /\ outcome' = as
  /\ UNCHANGED <<json, origin, asked>>

Parse ==
  /\ place = "wire"
  /\ IF origin = "garbage" \/ ParseThrows(json)
       THEN Throws("parse")
       ELSE /\ place' = "peer" /\ json' = Parsed(json)
            /\ UNCHANGED <<origin, asked, outcome>>

(* The callbacks handleRequest offers; RTM calls neither.                  *)
Answers(response, by) ==
  /\ place' = "wire" /\ json' = response /\ origin' = by
  /\ UNCHANGED <<asked, outcome>>

HandleRequest ==
  /\ place = "peer" /\ IsBoolean(json["request"])
  /\ \/ Handled("request")
     \/ Answers(CreateSuccessResponse(json), "accept")
     \/ Answers(CreateErrorResponse(json), "reject")

(* A slip: a response that has an ok, whatever it says, is a success.      *)
HandleResponseWithOk ==
  /\ place = "peer" /\ ~IsBoolean(json["request"]) /\ IsBoolean(json["response"])
  /\ Handled(IF json["ok"] # Null THEN "value" ELSE "error")

HandleResponse ==
  /\ place = "peer" /\ ~IsBoolean(json["request"]) /\ IsBoolean(json["response"])
  /\ IF ~IsInt(json["id"]) \/ (json["ok"] # Null /\ ~IsBoolean(json["ok"]))
       THEN Throws("peer")
       ELSE Handled(IF json["ok"] = True THEN "value" ELSE "error")

HandleOther ==
  /\ place = "peer" /\ ~IsBoolean(json["request"]) /\ ~IsBoolean(json["response"])
  /\ IF IsBoolean(json["notification"])
       THEN place' = "rtm" /\ UNCHANGED <<json, origin, asked, outcome>>
       ELSE Handled("invalid")

(* msgData.find(f) != msgData.end(): a field that is null is there.        *)
InData(f) == json["data"] = Object /\ json[f] # Absent

(* onServerNotification of RTM::connect, in the order of its reads.        *)
ServerNotification ==
  /\ place = "rtm"
  /\ LET named == InData("channelId") /\ InData("peerId")
         is(m) == json["method"] = Str(m)
     IN  \/ ~IsString(json["method"]) /\ Throws("rtm")
         \/ IsString(json["method"]) /\ ~named /\ Handled("ignored")
         \/ /\ IsString(json["method"]) /\ named
            /\ IF \/ ~IsString(json["channelId"]) \/ ~IsString(json["peerId"])
                  \/ is(ChannelMsgText) /\ ~IsString(json["msg"])
                 THEN Throws("rtm")
                 ELSE Handled(CASE is(ChannelMsgText) -> "message"
                                [] is(MemberJoin) \/ is(MemberLeave) -> "presence"
                                [] OTHER -> "ignored")

MessageNext == Parse \/ HandleRequest \/ HandleResponse \/ HandleOther \/ ServerNotification

MessageSpec == MessageInit /\ [][MessageNext]_messageVars

-----------------------------------------------------------------------------
(* Properties. *)

(* What parse accepts, Peer::onMessage and its handlers read without an    *)
(* exception, whatever the text said: the checks of one function are       *)
(* enough for the reads of another (Message::parse, handleResponse).       *)
PeerNeverThrows == outcome # "peer"

(* What the functions of Message create is accepted by parse and handled   *)
(* without an exception, by either end.                                    *)
OwnTextsUnderstood == origin \in {"request", "notify", "accept", "reject"} => place # "threw"

(* An answer that accept or reject sends reaches the other end as what it  *)
(* is, under the id of the request it answers, if that id fits an int.     *)
AnswerComesBack ==
  (place = "handled" /\ origin \in {"accept", "reject"}) =>
    /\ outcome = IF origin = "accept" THEN "value" ELSE "error"
    /\ asked < IntRange => json["id"] = Num(asked)
=============================================================================
