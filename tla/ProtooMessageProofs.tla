------------------------- MODULE ProtooMessageProofs -------------------------
(* Theorems about ProtooMessage, for any numbers and any width of an int.   *)
EXTENDS ProtooMessage, TLAPS

(* The fields of the values the code makes.                                 *)
LEMMA Values ==
  /\ Null.type = "null" /\ True.type = "boolean" /\ False.type = "boolean"
  /\ True # False /\ Null # True /\ Null # False
  /\ True.val = 1 /\ False.val = 0
  /\ \A n : Num(n).type = "number" /\ Num(n).val = n /\ Num(n) # Null
  /\ \A s : Str(s).type = "string" /\ Str(s) # Null
  /\ Object.type = "object"
BY DEF Null, True, False, Num, Str, Object, Json

-----------------------------------------------------------------------------
(* What parse leaves for the Peer: a response that is no request has an id  *)
(* that reads as an int, and no ok that is not a boolean.                   *)
Readable(o) ==
  ~IsBoolean(o["request"]) /\ IsBoolean(o["response"]) =>
    IsInt(o["id"]) /\ (o["ok"] = Null \/ IsBoolean(o["ok"]))

(* One case for each branch of parse.                                       *)
LEMMA ParsedReadable == ASSUME NEW o PROVE Readable(Parsed(o))
<1> USE Values DEF Field, DataField, IsBoolean
<1>1. CASE IsBoolean(o["request"])
  <2>1. Parsed(o) = [Copy(o, {"method"} \cup DataField)
                       EXCEPT !["request"] = True, !["id"] = GetInt(o["id"])]
    BY <1>1 DEF Parsed
  <2>2. Parsed(o)["request"] = True
    BY <2>1 DEF Copy
  <2> QED
    BY <2>2 DEF Readable
<1>2. CASE ~IsBoolean(o["request"]) /\ IsBoolean(o["response"])
  <2>1. Parsed(o) = [Copy(o, OkFields(o)) EXCEPT !["response"] = True, !["id"] = GetInt(o["id"])]
    BY <1>2 DEF Parsed
  <2>2. Parsed(o)["id"] = GetInt(o["id"])
    BY <2>1 DEF Copy
  <2>3. IsInt(GetInt(o["id"]))
    BY DEF GetInt, IsInt
  <2>4. Parsed(o)["ok"] = IF "ok" \in OkFields(o) THEN o["ok"] ELSE Null
    BY <2>1 DEF Copy
  <2>5. "ok" \in OkFields(o) => IsBoolean(o["ok"])
    BY DEF OkFields
  <2> QED
    BY <2>2, <2>3, <2>4, <2>5 DEF Readable
<1>3. CASE /\ ~IsBoolean(o["request"]) /\ ~IsBoolean(o["response"])
           /\ IsBoolean(o["notification"])
  <2>1. Parsed(o) = [Copy(o, {"id", "method"} \cup DataField) EXCEPT !["notification"] = True]
    BY <1>3 DEF Parsed
  <2>2. Parsed(o)["response"] = Null
    BY <2>1 DEF Copy
  <2> QED
    BY <2>2 DEF Readable
<1>4. CASE /\ ~IsBoolean(o["request"]) /\ ~IsBoolean(o["response"])
           /\ ~IsBoolean(o["notification"])
  <2>1. Parsed(o) = Blank
    BY <1>4 DEF Parsed
  <2>2. Parsed(o)["response"] = Null
    BY <2>1 DEF Blank
  <2> QED
    BY <2>2 DEF Readable
<1> QED
  BY <1>1, <1>2, <1>3, <1>4

PeerInv == PeerNeverThrows /\ (place = "peer" => Readable(json))

(* A text starts on the wire.                                               *)
LEMMA PeerStart == MessageInit => PeerInv
BY DEF MessageInit, PeerInv, PeerNeverThrows

(* Only Parse brings a text to the Peer; only HandleResponse can throw.     *)
LEMMA PeerStep == PeerInv /\ [MessageNext]_messageVars => PeerInv'
<1> SUFFICES ASSUME PeerInv, [MessageNext]_messageVars PROVE PeerInv'
  OBVIOUS
<1> USE DEF PeerInv, PeerNeverThrows
<1>1. CASE Parse
  BY <1>1, ParsedReadable DEF Parse, Throws
<1>2. CASE HandleRequest
  BY <1>2 DEF HandleRequest, Handled, Answers
<1>3. CASE HandleResponse
  BY <1>3 DEF HandleResponse, Handled, Throws, Readable
<1>4. CASE HandleOther
  BY <1>4 DEF HandleOther, Handled
<1>5. CASE ServerNotification
  <2>1. place' # "peer" /\ outcome' # "peer"
    BY <1>5 DEF ServerNotification, Handled, Throws
  <2> QED
    BY <2>1
<1>6. CASE UNCHANGED messageVars
  BY <1>6 DEF messageVars, Readable
<1> QED
  BY <1>1, <1>2, <1>3, <1>4, <1>5, <1>6 DEF MessageNext

(* No text makes the Peer's own reads throw: what parse checks is enough,   *)
(* for any values of any fields (Message::parse, Peer::handleResponse).     *)
THEOREM PeerNeverThrowsHolds == MessageSpec => []PeerNeverThrows
<1>1. PeerInv => PeerNeverThrows
  BY DEF PeerInv
<1> QED
  BY <1>1, PeerStart, PeerStep, PTL DEF MessageSpec

-----------------------------------------------------------------------------
(* The id.  A text whose id reads as an int carries the id that was asked   *)
(* for, if that fits an int; parse and create keep it.                      *)
IdKept == IsInt(json["id"]) /\ asked < IntRange => json["id"].val = asked

(* A number below IntRange goes through get<int> as it is.                  *)
LEMMA GetIntKeeps ==
  ASSUME asked \in Nat, IdKept, IsInt(json["id"]), asked < IntRange
  PROVE  GetInt(json["id"]) = Num(asked)
<1>1. asked % IntRange = asked
  BY MessageAssumption
<1> QED
  BY <1>1 DEF IdKept, GetInt

-----------------------------------------------------------------------------
(* An answer is a response with an ok, its id a number, and its reason with *)
(* it if it is an error; parse leaves all of this as it is.                 *)
AnswerText(o, ok) ==
  /\ ~IsBoolean(o["request"]) /\ IsBoolean(o["response"]) /\ o["ok"] = ok
  /\ o["id"] = Num(o["id"].val)
  /\ ok = False => IsInt(o["errorCode"]) /\ IsString(o["errorReason"])

(* accept and reject send an answer under the id of the request.            *)
LEMMA CreatedAnswers ==
  ASSUME NEW o
  PROVE  /\ AnswerText(CreateSuccessResponse(o), True)
         /\ AnswerText(CreateErrorResponse(o), False)
         /\ CreateSuccessResponse(o)["id"] = GetInt(o["id"])
         /\ CreateErrorResponse(o)["id"] = GetInt(o["id"])
<1> USE Values DEF Field, DataField, Blank, IsBoolean, IsInt, IsString, AnswerText, GetInt
<1>1. /\ AnswerText(CreateSuccessResponse(o), True)
      /\ CreateSuccessResponse(o)["id"] = GetInt(o["id"])
  BY DEF CreateSuccessResponse
<1>2. /\ AnswerText(CreateErrorResponse(o), False)
      /\ CreateErrorResponse(o)["id"] = GetInt(o["id"])
  BY DEF CreateErrorResponse
<1> QED
  BY <1>1, <1>2

(* The fields of a parsed response.                                         *)
LEMMA ParsedResponse ==
  ASSUME NEW o, ~IsBoolean(o["request"]), IsBoolean(o["response"])
  PROVE  /\ Parsed(o)["request"] = Null /\ Parsed(o)["response"] = True
         /\ Parsed(o)["id"] = GetInt(o["id"])
         /\ \A f \in OkFields(o) : Parsed(o)[f] = o[f]
<1> USE DEF Field, DataField
<1>1. Parsed(o) = [Copy(o, OkFields(o)) EXCEPT !["response"] = True, !["id"] = GetInt(o["id"])]
  BY DEF Parsed
<1>2. OkFields(o) \subseteq {"ok", "errorCode", "errorReason"} \cup DataField
  BY DEF OkFields
<1>3. /\ Copy(o, OkFields(o)) = [f \in Field |-> IF f \in OkFields(o) THEN o[f] ELSE Null]
      /\ "request" \notin OkFields(o)
  BY <1>2 DEF Copy
<1> QED
  BY <1>1, <1>2, <1>3

(* parse accepts an answer and leaves it one.                               *)
LEMMA ParsedAnswer ==
  ASSUME NEW o, NEW ok \in {True, False}, AnswerText(o, ok)
  PROVE  ~ParseThrows(o) /\ AnswerText(Parsed(o), ok)
<1> USE Values
<1>1. ~IsBoolean(o["request"]) /\ IsBoolean(o["response"]) /\ IsInt(o["id"])
  BY DEF AnswerText, IsInt
<1>2. ~ParseThrows(o)
  BY <1>1 DEF ParseThrows, AnswerText
<1>3. /\ "ok" \in OkFields(o)
      /\ ok = False => "errorCode" \in OkFields(o) /\ "errorReason" \in OkFields(o)
  BY DEF AnswerText, OkFields
<1>4. GetInt(o["id"]) = Num(GetInt(o["id"]).val)
  BY DEF GetInt
<1>5. ~IsBoolean(Null) /\ IsBoolean(True)
  BY DEF IsBoolean
<1>6. /\ Parsed(o)["request"] = Null /\ Parsed(o)["response"] = True
      /\ Parsed(o)["id"] = GetInt(o["id"])
      /\ \A f \in OkFields(o) : Parsed(o)[f] = o[f]
  BY <1>1, ParsedResponse
<1>7. AnswerText(Parsed(o), ok)
  BY <1>3, <1>4, <1>5, <1>6 DEF AnswerText
<1> QED
  BY <1>2, <1>7

(* What parse does to the id, and to the kind of a text.                    *)
LEMMA ParsedKinds ==
  ASSUME NEW o
  PROVE  /\ IsBoolean(o["request"]) =>
              IsBoolean(Parsed(o)["request"]) /\ Parsed(o)["id"] = GetInt(o["id"])
         /\ ~IsBoolean(o["request"]) => ~IsBoolean(Parsed(o)["request"])
         /\ ~IsBoolean(o["request"]) /\ ~IsBoolean(o["response"]) =>
              /\ ~IsBoolean(Parsed(o)["response"])
              /\ Parsed(o)["id"] = o["id"] \/ Parsed(o)["id"] = Null
              /\ IsBoolean(o["notification"]) =>
                   /\ IsBoolean(Parsed(o)["notification"])
                   /\ Parsed(o)["method"] = o["method"] /\ Parsed(o)["peerId"] = o["peerId"]
<1> USE DEF Field, DataField
<1>1. ~IsBoolean(Null) /\ IsBoolean(True)
  BY Values DEF IsBoolean
<1>2. CASE IsBoolean(o["request"])
  BY <1>1, <1>2 DEF Parsed, Copy
<1>3. CASE ~IsBoolean(o["request"]) /\ IsBoolean(o["response"])
  BY <1>1, <1>3, ParsedResponse
<1>4. CASE /\ ~IsBoolean(o["request"]) /\ ~IsBoolean(o["response"])
           /\ IsBoolean(o["notification"])
  BY <1>1, <1>4 DEF Parsed, Copy
<1>5. CASE /\ ~IsBoolean(o["request"]) /\ ~IsBoolean(o["response"])
           /\ ~IsBoolean(o["notification"])
  BY <1>1, <1>5 DEF Parsed, Blank
<1> QED
  BY <1>2, <1>3, <1>4, <1>5

-----------------------------------------------------------------------------
(* What each text is on its way, by who made it.                            *)
IdInv ==
  /\ asked \in Nat /\ IdKept
  /\ place = "peer" /\ IsBoolean(json["request"]) => IsInt(json["id"])

AnswerInv(by, ok, as) ==
  origin = by =>
    /\ AnswerText(json, ok) /\ place \in {"wire", "peer", "handled"}
    /\ place = "handled" => outcome = as

RequestInv ==
  origin = "request" =>
    /\ place \in {"wire", "peer", "handled"} /\ IsBoolean(json["request"])
    /\ place = "wire" => IsInt(json["id"]) /\ IsString(json["method"])

NotifyInv ==
  origin = "notify" =>
    /\ place \in {"wire", "peer", "rtm", "handled"}
    /\ ~IsBoolean(json["request"]) /\ ~IsBoolean(json["response"])
    /\ IsBoolean(json["notification"])
    /\ IsString(json["method"]) /\ json["peerId"] = Absent

OwnInv ==
  /\ IdInv
  /\ AnswerInv("accept", True, "value") /\ AnswerInv("reject", False, "error")
  /\ RequestInv /\ NotifyInv

(* Nobody has answered anything yet.                                        *)
LEMMA OwnInit == MessageInit => OwnInv
<1> SUFFICES ASSUME MessageInit PROVE OwnInv
  OBVIOUS
<1> USE Values DEF MessageInit
<1>1. asked \in Nat /\ place = "wire" /\ origin \notin {"accept", "reject"}
  BY MessageAssumption
<1>2. CASE origin = "garbage"
  BY <1>1, <1>2 DEF OwnInv, IdInv, IdKept, AnswerInv, RequestInv, NotifyInv, Blank, IsInt,
                    Field, DataField
<1>3. CASE origin = "request"
  <2>1. /\ json["request"] = True /\ json["id"] = Num(asked)
        /\ json["method"] = Str(OtherMethod)
    BY <1>3 DEF CreateRequest, Blank, Field, DataField
  <2> QED
    BY <1>1, <1>3, <2>1 DEF OwnInv, IdInv, IdKept, AnswerInv, RequestInv, NotifyInv, IsInt,
                            IsBoolean, IsString
<1>4. CASE origin = "notify"
  <2>1. /\ json["request"] = Null /\ json["response"] = Null /\ json["notification"] = True
        /\ json["id"] = Null /\ json["method"] = Str(ChannelMsgText) /\ json["peerId"] = Absent
    BY <1>4 DEF CreateNotification, Blank, Field, DataField
  <2> QED
    BY <1>1, <1>4, <2>1 DEF OwnInv, IdInv, IdKept, AnswerInv, RequestInv, NotifyInv, IsInt,
                            IsBoolean, IsString
<1>5. CASE origin = "anyone"
  <2>1. IsInt(json["id"]) => asked = json["id"].val
    BY <1>5 DEF SomeObject, Field, DataField
  <2> QED
    BY <1>1, <1>5, <2>1 DEF OwnInv, IdInv, IdKept, AnswerInv, RequestInv, NotifyInv
<1> QED
  BY <1>2, <1>3, <1>4, <1>5

(* parse refuses none of our texts.                                         *)
LEMMA OwnParse == ASSUME OwnInv, Parse PROVE OwnInv'
<1>1. UNCHANGED <<origin, asked>>
  BY DEF Parse, Throws
<1>2. CASE origin = "garbage" \/ ParseThrows(json)
  <2>1. place' = "threw" /\ UNCHANGED json /\ place = "wire"
    BY <1>2 DEF Parse, Throws
  <2>2. origin \notin {"accept", "reject"}
    <3>1. origin = "accept" => ~ParseThrows(json)
      BY ParsedAnswer DEF OwnInv, AnswerInv
    <3>2. origin = "reject" => ~ParseThrows(json)
      BY ParsedAnswer DEF OwnInv, AnswerInv
    <3> QED
      BY <1>2, <3>1, <3>2
  <2>3. origin # "request"
    BY <1>2, <2>1 DEF OwnInv, RequestInv, ParseThrows
  <2>4. origin # "notify"
    BY <1>2, <2>1 DEF OwnInv, NotifyInv, ParseThrows
  <2> QED
    BY <1>1, <2>1, <2>2, <2>3, <2>4 DEF OwnInv, IdInv, IdKept, AnswerInv, RequestInv, NotifyInv
<1>3. CASE ~(origin = "garbage" \/ ParseThrows(json))
  <2>1. place = "wire" /\ place' = "peer" /\ json' = Parsed(json)
    BY <1>3 DEF Parse
  <2>2. IsBoolean(json["request"]) \/ IsBoolean(json["response"]) => IsInt(json["id"])
    BY <1>3 DEF ParseThrows
  <2>3. /\ IsBoolean(json["request"]) \/ IsBoolean(json["response"]) =>
             json'["id"] = GetInt(json["id"])
        /\ ~IsBoolean(json["request"]) /\ ~IsBoolean(json["response"]) =>
             json'["id"] = json["id"] \/ json'["id"] = Null
        /\ IsBoolean(json'["request"]) <=> IsBoolean(json["request"])
    BY <2>1, ParsedKinds, ParsedResponse
  <2>4. IsInt(GetInt(json["id"])) /\ ~IsInt(Null)
    BY Values DEF IsInt, GetInt
  <2>5. IdInv'
    <3>1. ASSUME IsInt(json["id"]), asked < IntRange PROVE GetInt(json["id"]).val = asked
      BY <3>1, GetIntKeeps, Values DEF OwnInv, IdInv
    <3>2. IdKept'
      BY <1>1, <2>2, <2>3, <2>4, <3>1 DEF OwnInv, IdInv, IdKept
    <3> QED
      BY <1>1, <2>2, <2>3, <2>4, <3>2 DEF OwnInv, IdInv
  <2>6. AnswerInv("accept", True, "value")' /\ AnswerInv("reject", False, "error")'
    <3>1. /\ origin = "accept" => AnswerText(Parsed(json), True)
          /\ origin = "reject" => AnswerText(Parsed(json), False)
      BY ParsedAnswer DEF OwnInv, AnswerInv
    <3> QED
      BY <1>1, <2>1, <3>1 DEF AnswerInv, AnswerText, True, False, Num, Json
  <2>7. RequestInv'
    BY <1>1, <2>1, <2>3 DEF OwnInv, RequestInv
  <2>8. NotifyInv'
    BY <1>1, <2>1, ParsedKinds DEF OwnInv, NotifyInv
  <2> QED
    BY <2>5, <2>6, <2>7, <2>8 DEF OwnInv
<1> QED
  BY <1>2, <1>3

(* A step that leaves the text alone and has it handled.                    *)
LEMMA OwnHandled ==
  ASSUME OwnInv, place = "peer" \/ place = "rtm", NEW as, Handled(as),
         origin = "accept" => as = "value", origin = "reject" => as = "error"
  PROVE  OwnInv'
BY DEF OwnInv, IdInv, IdKept, AnswerInv, RequestInv, NotifyInv, Handled

(* Only here does an answer come to be.                                     *)
LEMMA OwnRequest == ASSUME OwnInv, HandleRequest PROVE OwnInv'
<1>1. /\ place = "peer" /\ IsBoolean(json["request"]) /\ IsInt(json["id"])
      /\ origin \notin {"accept", "reject"}
  BY DEF HandleRequest, OwnInv, IdInv, AnswerInv, AnswerText
<1>2. CASE Handled("request")
  BY <1>1, <1>2, OwnHandled
<1>3. asked < IntRange => GetInt(json["id"]) = Num(asked)
  BY <1>1, GetIntKeeps DEF OwnInv, IdInv
<1>4. ASSUME NEW o, NEW by \in {"accept", "reject"}, Answers(o, by),
             o["id"] = GetInt(json["id"]),
             by = "accept" => AnswerText(o, True), by = "reject" => AnswerText(o, False)
      PROVE  OwnInv'
  <2>1. place' = "wire" /\ json' = o /\ origin' = by /\ UNCHANGED asked
    BY <1>4 DEF Answers
  <2>2. IdInv'
    BY <1>3, <1>4, <2>1, Values DEF OwnInv, IdInv, IdKept
  <2>3. AnswerInv("accept", True, "value")' /\ AnswerInv("reject", False, "error")'
    BY <1>4, <2>1 DEF AnswerInv, AnswerText, True, False, Num, Json
  <2>4. RequestInv' /\ NotifyInv'
    BY <1>4, <2>1 DEF RequestInv, NotifyInv
  <2> QED
    BY <2>2, <2>3, <2>4 DEF OwnInv
<1>5. CASE Answers(CreateSuccessResponse(json), "accept")
  BY <1>4, <1>5, CreatedAnswers
<1>6. CASE Answers(CreateErrorResponse(json), "reject")
  BY <1>4, <1>6, CreatedAnswers
<1> QED
  BY <1>2, <1>5, <1>6 DEF HandleRequest

(* An answer is handled as what it says.                                    *)
LEMMA OwnResponse == ASSUME OwnInv, PeerInv, HandleResponse PROVE OwnInv'
<1>1. /\ place = "peer" /\ ~IsBoolean(json["request"]) /\ IsBoolean(json["response"])
      /\ Handled(IF json["ok"] = True THEN "value" ELSE "error")
  BY DEF HandleResponse, PeerInv, Readable
<1>2. /\ origin = "accept" => json["ok"] = True
      /\ origin = "reject" => json["ok"] = False
  BY DEF OwnInv, AnswerInv, AnswerText
<1>3. True # False
  BY Values
<1> DEFINE as == IF json["ok"] = True THEN "value" ELSE "error"
<1>4. /\ origin = "accept" => as = "value"
      /\ origin = "reject" => as = "error"
  BY <1>2, <1>3
<1>5. Handled(as)
  BY <1>1
<1> HIDE DEF as
<1> QED
  BY <1>1, <1>4, <1>5, OwnHandled

(* Our notifications go on to RTM, nothing else of ours comes here.         *)
LEMMA OwnOther == ASSUME OwnInv, HandleOther PROVE OwnInv'
<1>1. /\ place = "peer" /\ ~IsBoolean(json["request"]) /\ ~IsBoolean(json["response"])
      /\ origin \notin {"accept", "reject", "request"}
  BY DEF HandleOther, OwnInv, AnswerInv, AnswerText, RequestInv
<1>2. CASE Handled("invalid")
  BY <1>1, <1>2, OwnHandled
<1>3. CASE place' = "rtm" /\ UNCHANGED <<json, origin, asked, outcome>>
  BY <1>1, <1>3 DEF OwnInv, IdInv, IdKept, AnswerInv, RequestInv, NotifyInv
<1> QED
  BY <1>2, <1>3 DEF HandleOther

(* A notification is taken for something, or a read of it throws.           *)
LEMMA NotificationEnds ==
  ASSUME ServerNotification PROVE Throws("rtm") \/ \E as \in Taken : Handled(as)
<1> DEFINE as == CASE json["method"] = Str(ChannelMsgText) -> "message"
                   [] json["method"] = Str(MemberJoin)
                        \/ json["method"] = Str(MemberLeave) -> "presence"
                   [] OTHER -> "ignored"
<1>1. Throws("rtm") \/ Handled("ignored") \/ Handled(as)
  BY DEF ServerNotification
<1>2. as \in Taken /\ "ignored" \in Taken
  BY DEF Taken
<1> HIDE DEF as
<1> QED
  BY <1>1, <1>2

(* Our notifications name no peer, and are ignored.                         *)
LEMMA OwnNotification == ASSUME OwnInv, ServerNotification PROVE OwnInv'
<1>1. place = "rtm" /\ origin \notin {"accept", "reject", "request"}
  BY DEF ServerNotification, OwnInv, AnswerInv, RequestInv
<1>2. ASSUME Throws("rtm"), origin # "notify" PROVE OwnInv'
  BY <1>1, <1>2 DEF Throws, OwnInv, IdInv, IdKept, AnswerInv, RequestInv, NotifyInv
<1>3. CASE origin = "notify"
  <2>1. Handled("ignored")
    BY <1>3 DEF ServerNotification, InData, OwnInv, NotifyInv
  <2> QED
    BY <1>1, <2>1, OwnHandled
<1>4. CASE origin # "notify"
  <2>1. Throws("rtm") \/ \E as \in Taken : Handled(as)
    BY NotificationEnds
  <2> QED
    BY <1>1, <1>2, <1>4, <2>1, OwnHandled
<1> QED
  BY <1>3, <1>4

(* All steps together.                                                      *)
LEMMA OwnStep == PeerInv /\ OwnInv /\ [MessageNext]_messageVars => OwnInv'
<1> SUFFICES ASSUME PeerInv, OwnInv, [MessageNext]_messageVars PROVE OwnInv'
  OBVIOUS
<1>1. CASE UNCHANGED messageVars
  BY <1>1 DEF messageVars, OwnInv, IdInv, IdKept, AnswerInv, AnswerText, RequestInv, NotifyInv
<1> QED
  BY <1>1, OwnParse, OwnRequest, OwnResponse, OwnOther, OwnNotification DEF MessageNext

(* No text that Message makes is refused or read wrongly by either end.     *)
THEOREM OwnTextsHolds == MessageSpec => []OwnTextsUnderstood
<1>1. OwnInv => OwnTextsUnderstood
  BY DEF OwnInv, AnswerInv, RequestInv, NotifyInv, OwnTextsUnderstood
<1> QED
  BY <1>1, PeerStart, PeerStep, OwnInit, OwnStep, PTL DEF MessageSpec

(* An answer comes back as what it is, under the id it was asked with, for  *)
(* every id that fits an int.                                               *)
THEOREM AnswerComesBackHolds == MessageSpec => []AnswerComesBack
<1>1. OwnInv => AnswerComesBack
  <2> SUFFICES ASSUME OwnInv, place = "handled", origin \in {"accept", "reject"}
               PROVE  /\ outcome = IF origin = "accept" THEN "value" ELSE "error"
                      /\ asked < IntRange => json["id"] = Num(asked)
    BY DEF AnswerComesBack
  <2>1. outcome = IF origin = "accept" THEN "value" ELSE "error"
    BY DEF OwnInv, AnswerInv
  <2>2. json["id"] = Num(json["id"].val)
    BY DEF OwnInv, AnswerInv, AnswerText
  <2>3. IsInt(json["id"])
    BY <2>2, Values DEF IsInt
  <2>4. asked < IntRange => json["id"].val = asked
    BY <2>3 DEF OwnInv, IdInv, IdKept
  <2> QED
    BY <2>1, <2>2, <2>4
<1> QED
  BY <1>1, PeerStart, PeerStep, OwnInit, OwnStep, PTL DEF MessageSpec

-----------------------------------------------------------------------------
(* Types.  The texts are total over the fields, and an id that the Peer     *)
(* reads has gone through get<int>.                                         *)
JsonValue ==
  [type : {"absent", "null", "boolean", "number", "string", "object"}, val : Nat]

JsonText == [Field -> JsonValue]

(* The values the code makes have their types.                              *)
LEMMA ValueTypes ==
  /\ Null \in JsonValue /\ True \in JsonValue /\ False \in JsonValue /\ Object \in JsonValue
  /\ Absent \in JsonValue /\ \A n \in Nat : Num(n) \in JsonValue /\ Str(n) \in JsonValue
BY DEF JsonValue, Absent, Null, True, False, Object, Num, Str, Json

(* get<int> yields an int.                                                  *)
LEMMA GetIntType ==
  ASSUME NEW v \in JsonValue
  PROVE  GetInt(v) \in JsonValue /\ GetInt(v).val \in 0 .. IntRange - 1
<1>1. v.val % IntRange \in 0 .. IntRange - 1 /\ v.val % IntRange \in Nat
  BY MessageAssumption DEF JsonValue
<1> QED
  BY <1>1, ValueTypes, Values DEF GetInt

(* What Message creates are texts.                                          *)
LEMMA CreatedTypes ==
  /\ \A i \in Nat : CreateRequest(i) \in JsonText
  /\ CreateNotification \in JsonText
  /\ \A o \in JsonText : /\ CreateSuccessResponse(o) \in JsonText
                         /\ CreateErrorResponse(o) \in JsonText
<1>1. Blank \in JsonText
  BY ValueTypes DEF Blank, JsonText
<1>2. \A t \in JsonText, f \in Field, v \in JsonValue : [t EXCEPT ![f] = v] \in JsonText
  BY DEF JsonText
<1>3. \A o \in JsonText : GetInt(o["id"]) \in JsonValue
  BY GetIntType DEF JsonText, Field
<1>4. /\ True \in JsonValue /\ False \in JsonValue /\ Object \in JsonValue
      /\ Absent \in JsonValue /\ Str(0) \in JsonValue /\ Num(0) \in JsonValue
      /\ Str(OtherMethod) \in JsonValue /\ Str(ChannelMsgText) \in JsonValue
      /\ \A i \in Nat : Num(i) \in JsonValue
  BY ValueTypes DEF OtherMethod, ChannelMsgText
<1>5. \A i \in Nat : CreateRequest(i) \in JsonText
  BY <1>1, <1>2, <1>4 DEF CreateRequest, Field, DataField
<1>6. CreateNotification \in JsonText
  BY <1>1, <1>2, <1>4 DEF CreateNotification, Field, DataField
<1>7. ASSUME NEW o \in JsonText
      PROVE  CreateSuccessResponse(o) \in JsonText /\ CreateErrorResponse(o) \in JsonText
  <2>1. GetInt(o["id"]) \in JsonValue
    BY <1>3
  <2>2. CreateSuccessResponse(o) \in JsonText
    BY <1>1, <1>2, <1>4, <2>1 DEF CreateSuccessResponse, Field, DataField
  <2>3. CreateErrorResponse(o) \in JsonText
    BY <1>1, <1>2, <1>4, <2>1 DEF CreateErrorResponse, Field, DataField
  <2> QED
    BY <2>2, <2>3
<1> QED
  BY <1>5, <1>6, <1>7

(* What parse makes of a text is one, and the id the Peer reads is an int.  *)
LEMMA ParsedTypes ==
  ASSUME NEW o \in JsonText
  PROVE  /\ Parsed(o) \in JsonText
         /\ Parsed(o)["id"] # Null /\ Parsed(o)["notification"] = Null =>
              Parsed(o)["id"].val \in 0 .. IntRange - 1
<1>1. \A S : Copy(o, S) \in JsonText
  BY ValueTypes DEF Copy, JsonText
<1>2. \A t \in JsonText, f \in Field, v \in JsonValue : [t EXCEPT ![f] = v] \in JsonText
  BY DEF JsonText
<1>3. GetInt(o["id"]) \in JsonValue /\ GetInt(o["id"]).val \in 0 .. IntRange - 1
  BY GetIntType DEF JsonText, Field
<1>4. "request" \in Field /\ "response" \in Field /\ "notification" \in Field /\ "id" \in Field
  BY DEF Field
<1>5. \A t \in JsonText, f \in Field :
        LET u == [t EXCEPT ![f] = True, !["id"] = GetInt(o["id"])]
        IN  u \in JsonText /\ u["id"] = GetInt(o["id"])
  BY <1>2, <1>3, <1>4, ValueTypes DEF JsonText
<1>6. CASE IsBoolean(o["request"])
  BY <1>1, <1>3, <1>4, <1>5, <1>6 DEF Parsed
<1>7. CASE ~IsBoolean(o["request"]) /\ IsBoolean(o["response"])
  BY <1>1, <1>3, <1>4, <1>5, <1>7 DEF Parsed
<1>8. CASE /\ ~IsBoolean(o["request"]) /\ ~IsBoolean(o["response"])
           /\ IsBoolean(o["notification"])
  <2> DEFINE t == Copy(o, {"id", "method"} \cup DataField)
  <2>1. Parsed(o) = [t EXCEPT !["notification"] = True]
    BY <1>8 DEF Parsed
  <2>2. t \in JsonText
    BY <1>1
  <2> HIDE DEF t
  <2>3. Parsed(o) \in JsonText /\ Parsed(o)["notification"] = True
    BY <1>2, <1>4, <2>1, <2>2, ValueTypes DEF JsonText
  <2> QED
    BY <2>3, Values
<1>9. CASE /\ ~IsBoolean(o["request"]) /\ ~IsBoolean(o["response"])
           /\ ~IsBoolean(o["notification"])
  BY <1>4, <1>9, ValueTypes DEF Parsed, Blank, JsonText
<1> QED
  BY <1>6, <1>7, <1>8, <1>9

(* Any object that may arrive is a text.                                    *)
LEMMA SomeObjectType == SomeObject => json \in JsonText
<1> SUFFICES ASSUME SomeObject PROVE json \in JsonText
  OBVIOUS
<1>1. /\ {Null, Str(0), True} \cup {Num(n) : n \in Number} \subseteq JsonValue
      /\ {Null} \cup {Str(s) : s \in ChannelMsgText .. OtherMethod} \subseteq JsonValue
      /\ {Null, True, False, Str(0)} \subseteq JsonValue
      /\ {Null, Num(0)} \subseteq JsonValue /\ {Null, Str(0)} \subseteq JsonValue
      /\ {Null, Object} \subseteq JsonValue /\ {Absent, Null, Str(0), Num(0)} \subseteq JsonValue
  BY ValueTypes, MessageAssumption DEF ChannelMsgText, OtherMethod
<1> DEFINE Text(kinds, id, method, ok, code, reason, data, fields) ==
             [f \in Field |->
                CASE f \in {"request", "response", "notification"} ->
                       IF f \in kinds THEN True ELSE Null
                  [] f = "id" -> id         [] f = "method" -> method
                  [] f = "ok" -> ok         [] f = "errorCode" -> code
                  [] f = "data" -> data     [] f = "errorReason" -> reason
                  [] OTHER -> fields[f]]
<1>2. ASSUME NEW kinds, NEW id \in JsonValue, NEW method \in JsonValue, NEW ok \in JsonValue,
             NEW code \in JsonValue, NEW reason \in JsonValue, NEW data \in JsonValue,
             NEW fields \in [DataField \ {"data"} -> JsonValue]
      PROVE  Text(kinds, id, method, ok, code, reason, data, fields) \in JsonText
  <2>1. ASSUME NEW f \in Field, f \notin {"request", "response", "notification", "id", "method",
                                          "ok", "errorCode", "data", "errorReason"}
        PROVE  fields[f] \in JsonValue
    BY <2>1 DEF Field, DataField
  <2> QED
    BY <2>1, ValueTypes DEF JsonText
<1>3. PICK kinds \in SUBSET {"request", "response", "notification"},
           id \in {Null, Str(0), True} \cup {Num(n) : n \in Number},
           method \in {Null} \cup {Str(s) : s \in ChannelMsgText .. OtherMethod},
           ok \in {Null, True, False, Str(0)}, code \in {Null, Num(0)},
           reason \in {Null, Str(0)}, data \in {Null, Object},
           fields \in [DataField \ {"data"} -> {Absent, Null, Str(0), Num(0)}] :
        /\ IsInt(id) => asked = id.val
        /\ data = Null => \A f \in DOMAIN fields : fields[f] = Absent
        /\ json = Text(kinds, id, method, ok, code, reason, data, fields)
  BY Zenon DEF SomeObject
<1>4. /\ id \in JsonValue /\ method \in JsonValue /\ ok \in JsonValue /\ code \in JsonValue
      /\ reason \in JsonValue /\ data \in JsonValue
      /\ fields \in [DataField \ {"data"} -> JsonValue]
  BY <1>1
<1> HIDE DEF Text
<1> QED
  BY <1>2, <1>3, <1>4

(* The first text is one of them, or one that Message creates.              *)
LEMMA TypeStart == MessageInit => MessageTypeOK
<1> SUFFICES ASSUME MessageInit PROVE MessageTypeOK
  OBVIOUS
<1>1. json \in JsonText
  BY CreatedTypes, SomeObjectType, ValueTypes, MessageAssumption
  DEF MessageInit, Blank, JsonText
<1> QED
  BY <1>1 DEF MessageInit, MessageTypeOK, JsonText, JsonValue, Taken

(* One step for each action.                                                *)
LEMMA TypeStep == MessageTypeOK /\ [MessageNext]_messageVars => MessageTypeOK'
<1> SUFFICES ASSUME MessageTypeOK, [MessageNext]_messageVars PROVE MessageTypeOK'
  OBVIOUS
<1> USE DEF MessageTypeOK
<1>1. json \in JsonText
  BY DEF JsonText, JsonValue
<1>2. ASSUME NEW where \in Thrown, Throws(where) PROVE MessageTypeOK'
  BY <1>2 DEF Throws
<1>3. ASSUME NEW as \in Taken, Handled(as) PROVE MessageTypeOK'
  BY <1>3 DEF Handled
<1>4. ASSUME NEW o \in JsonText, NEW by \in {"accept", "reject"}, Answers(o, by)
      PROVE  MessageTypeOK'
  BY <1>4 DEF Answers, JsonText, JsonValue
<1>5. CASE Parse
  <2>1. CASE Throws("parse")
    BY <1>2, <2>1 DEF Thrown
  <2>2. CASE place' = "peer" /\ json' = Parsed(json) /\ UNCHANGED <<origin, asked, outcome>>
    <3>1. /\ json' \in JsonText
          /\ json'["id"] # Null /\ json'["notification"] = Null =>
               json'["id"].val \in 0 .. IntRange - 1
      BY <1>1, <2>2, ParsedTypes
    <3>2. Null' = Null
      BY DEF Null, Json
    <3> QED
      BY <2>2, <3>1, <3>2 DEF JsonText, JsonValue
  <2> QED
    BY <1>5, <2>1, <2>2 DEF Parse
<1>6. CASE HandleRequest
  BY <1>1, <1>3, <1>4, <1>6, CreatedTypes DEF HandleRequest, Taken
<1>7. CASE HandleResponse
  BY <1>2, <1>3, <1>7 DEF HandleResponse, Taken, Thrown
<1>8. CASE HandleOther
  <2>1. CASE Handled("invalid")
    BY <1>3, <2>1 DEF Taken
  <2>2. CASE place' = "rtm" /\ UNCHANGED <<json, origin, asked, outcome>>
    BY <2>2
  <2> QED
    BY <1>8, <2>1, <2>2 DEF HandleOther
<1>9. CASE ServerNotification
  <2>1. Throws("rtm") \/ \E as \in Taken : Handled(as)
    BY <1>9, NotificationEnds
  <2> QED
    BY <1>2, <1>3, <2>1 DEF Thrown
<1>10. CASE UNCHANGED messageVars
  BY <1>10 DEF messageVars
<1> QED
  BY <1>5, <1>6, <1>7, <1>8, <1>9, <1>10 DEF MessageNext

(* A text stays a total record of typed fields on its whole way, and an id  *)
(* that reaches the Peer fits an int, for any numbers on the wire           *)
(* (Message::parse and the functions that create).                          *)
THEOREM MessageTypes == MessageSpec => []MessageTypeOK
BY TypeStart, TypeStep, PTL DEF MessageSpec
=============================================================================
