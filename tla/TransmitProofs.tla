--------------------------- MODULE TransmitProofs ---------------------------
(* Proofs about Transmit: the card runs a command at most once and on all  *)
(* of its data, no chain is left open without an error, and the answer is  *)
(* in the buffer in order and, on success, complete, for every size of     *)
(* APDUs, buffers, data and answers and every command the drivers send;    *)
(* and every APDU brings the end of its command nearer.                    *)
EXTENDS Transmit, SequenceTheorems, TLAPS

(* The bytes before a chunk and those of the chunk are the bytes so far.   *)
LEMMA BytesJoin ==
  ASSUME NEW a \in Nat, NEW b \in Nat, a <= b
  PROVE  Bytes(0, a) \o Bytes(a, b) = Bytes(0, b)
<1>1. /\ Bytes(0, a) \in Seq(Nat) /\ Len(Bytes(0, a)) = a
      /\ \A i \in 1..a : Bytes(0, a)[i] = i
  BY SMT DEF Bytes
<1>2. /\ Bytes(a, b) \in Seq(Nat) /\ Len(Bytes(a, b)) = b - a
      /\ \A i \in 1..(b - a) : Bytes(a, b)[i] = a + i
  BY SMT DEF Bytes
<1>3. /\ Bytes(0, b) \in Seq(Nat) /\ Len(Bytes(0, b)) = b
      /\ \A i \in 1..b : Bytes(0, b)[i] = i
  BY SMT DEF Bytes
<1>4. /\ Bytes(0, a) \o Bytes(a, b) \in Seq(Nat)
      /\ Len(Bytes(0, a) \o Bytes(a, b)) = Len(Bytes(0, a)) + Len(Bytes(a, b))
      /\ \A i \in 1..Len(Bytes(0, a)) + Len(Bytes(a, b)) :
           (Bytes(0, a) \o Bytes(a, b))[i] =
             IF i <= Len(Bytes(0, a)) THEN Bytes(0, a)[i]
             ELSE Bytes(a, b)[i - Len(Bytes(0, a))]
  BY <1>1, <1>2, ConcatProperties
<1>5. Len(Bytes(0, a)) + Len(Bytes(a, b)) = b
  BY <1>1, <1>2, SMT
<1>6. ASSUME NEW i \in 1..b
      PROVE  (Bytes(0, a) \o Bytes(a, b))[i] = Bytes(0, b)[i]
  <2>1. CASE i <= a
    BY <1>1, <1>3, <1>4, <1>5, <2>1, SMT
  <2>2. CASE ~(i <= a)
    <3>1. i - a \in 1..(b - a) /\ a + (i - a) = i
      BY <2>2, SMT
    <3>2. QED
      BY <1>1, <1>2, <1>3, <1>4, <1>5, <2>2, <3>1, SMT
  <2>3. QED
    BY <2>1, <2>2
<1>7. QED
  BY <1>3, <1>4, <1>5, <1>6, SeqEqual

LEMMA BytesLen ==
  ASSUME NEW a \in Nat, NEW b \in Nat, a <= b
  PROVE  /\ Bytes(a, b) \in Seq(Nat)
         /\ Len(Bytes(a, b)) = b - a
BY SMT DEF Bytes

LEMMA FirstBytes ==
  ASSUME NEW n \in Nat
  PROVE  Bytes(0, n) \in Seq(Nat) /\ Len(Bytes(0, n)) = n
BY BytesLen, SMT

LEMMA NoBytes == Bytes(0, 0) = <<>>
BY SMT DEF Bytes

LEMMA FirstRun ==
  ASSUME NEW x
  PROVE  Append(<<>>, x) = <<x>>
BY SMT

LEMMA OneRun ==
  ASSUME NEW n \in Nat
  PROVE  <<Bytes(0, n)>> \in Seq(Seq(Nat))
<1>1. Bytes(0, n) \in Seq(Nat)
  BY BytesLen, SMT
<1>2. Append(<<>>, Bytes(0, n)) \in Seq(Seq(Nat))
  BY <1>1, EmptySeq, AppendProperties
<1>3. QED
  BY <1>2, FirstRun

LEMMA LesserNat ==
  ASSUME NEW a \in Nat, NEW b \in Nat
  PROVE  /\ Lesser(a, b) \in Nat
         /\ Lesser(a, b) <= a /\ Lesser(a, b) <= b
         /\ Lesser(a, b) = a \/ Lesser(a, b) = b
BY SMT DEF Lesser

-----------------------------------------------------------------------------
(* While the command's data go out, the card holds what was sent so far    *)
(* and has not run anything.                                               *)
Sending ==
  pc \in {"send", "resend"} =>
    /\ received = Bytes(0, sent) /\ executed = <<>>
    /\ resp = <<>> /\ total = 0 /\ given = 0

(* Where the chunk loop has gone on, a chunk of full size was short enough.*)
ChunkFits == (pc = "send" /\ sent > 0) => call.chaining /\ call.send <= MaxLc(call)

(* While a command is under way it has no result, and it asks for as much  *)
(* data as the driver does, or as the card named.                          *)
Underway == /\ pc = "send" => le = call.le
            /\ pc = "resend" => le > 0
            /\ pc # "idle" => rc = "none"

(* While the answer is fetched, the command has run, the buffer holds all  *)
(* the card has sent, and there is room in it.                             *)
Fetching ==
  pc \in {"get", "reget"} =>
    /\ received = <<>> /\ executed = <<Bytes(0, call.data)>>
    /\ Len(resp) = given /\ given < call.cap

IInv == /\ TypeOK /\ Sending /\ ChunkFits /\ Underway /\ Fetching
        /\ RunsWholeOnce /\ NoOpenChain /\ AnswerInOrder /\ AnswerComplete

-----------------------------------------------------------------------------
LEMMA BlockNat == Block \in Nat \ {0} /\ MaxRecv \in Nat \ {0} /\ MaxAnswer \in Nat
BY TransmitAssumption

LEMMA StatusKinds ==
  /\ \A c \in {"ok", "eof", "error"} : Status(c) \in StatusWords /\ Status(c).sw1 = c
  /\ \A c \in {"more", "length"} : \A s \in WithCount(c) :
       s \in StatusWords /\ s.sw1 = c /\ Length(s) \in Nat \ {0}
BY BlockNat, SMT DEF Status, WithCount, StatusWords, Length

LEMMA InitInv == Init => IInv
<1> SUFFICES ASSUME Init PROVE IInv
  OBVIOUS
<1>1. TypeOK
  BY BlockNat, StatusKinds, SMT DEF Init, TypeOK, Commands, Phases, Results
<1>2. Sending /\ ChunkFits /\ Underway /\ Fetching
  BY SMT DEF Init, Sending, ChunkFits, Underway, Fetching
<1>3. RunsWholeOnce /\ NoOpenChain /\ AnswerComplete
  BY SMT DEF Init, RunsWholeOnce, NoOpenChain, AnswerComplete
<1>4. AnswerInOrder
  BY NoBytes, EmptySeq, SMT DEF Init, AnswerInOrder
<1>5. QED
  BY <1>1, <1>2, <1>3, <1>4 DEF IInv

LEMMA StartInv ==
  ASSUME IInv, NEW c \in Calls, Start(c)
  PROVE  IInv'
<1>1. c \in Commands /\ c.data \in Nat /\ c.le \in Nat /\ c.cap \in Nat
  BY TransmitAssumption, SMT DEF Commands
<1>2. (pc' = "send" /\ rc' = "none") \/ (pc' = "idle" /\ rc' = "invalid")
  BY DEF Start, Return
<1>3. rc' \in {"none", "invalid"}
  BY DEF Start, Return
<1>4. TypeOK'
  BY <1>1, <1>2, <1>3, BlockNat, StatusKinds, SMT
  DEF Start, TypeOK, Phases, Results
<1>5. Sending' /\ ChunkFits' /\ Underway' /\ Fetching'
  BY <1>1, <1>2, NoBytes, SMT DEF Start, Sending, ChunkFits, Underway, Fetching
<1>6. RunsWholeOnce' /\ NoOpenChain' /\ AnswerComplete'
  BY <1>2, <1>3, SMT DEF Start, RunsWholeOnce, NoOpenChain, AnswerComplete
<1>7. AnswerInOrder'
  BY <1>1, NoBytes, EmptySeq, SMT DEF Start, AnswerInOrder
<1>8. QED
  BY <1>4, <1>5, <1>6, <1>7 DEF IInv

LEMMA ChunkTooLongInv ==
  ASSUME IInv, ChunkTooLong
  PROVE  IInv'
<1>1. call.data \in Nat /\ call.send \in Nat
  BY SMT DEF IInv, TypeOK, Commands
<1>2. sent = 0
  <2>1. Chunk <= call.send
    BY <1>1, SMT DEF IInv, TypeOK, ChunkTooLong, Chunk, More, Rest
  <2>2. MaxLc(call) \in Int
    BY TransmitAssumption, SMT DEF MaxLc
  <2>3. QED
    BY <1>1, <2>1, <2>2, SMT DEF IInv, TypeOK, ChunkTooLong, ChunkFits, Chunk, More, Rest
<1>3. received = <<>>
  BY <1>2, NoBytes DEF IInv, Sending, ChunkTooLong
<1>4. pc' = "idle" /\ rc' = "invalid" /\ UNCHANGED <<call, sent, le, resp, sw, cardVars>>
  BY DEF ChunkTooLong, Return
<1>5. TypeOK'
  BY <1>4, SMT DEF IInv, TypeOK, cardVars, Phases, Results
<1>6. Sending' /\ ChunkFits' /\ Underway' /\ Fetching'
  BY <1>4, SMT DEF Sending, ChunkFits, Underway, Fetching
<1>7. RunsWholeOnce' /\ NoOpenChain' /\ AnswerComplete' /\ AnswerInOrder'
  BY <1>3, <1>4, SMT DEF IInv, cardVars, RunsWholeOnce, NoOpenChain, AnswerComplete, AnswerInOrder
<1>8. QED
  BY <1>5, <1>6, <1>7 DEF IInv

LEMMA ChunkTakenInv ==
  ASSUME IInv, ChunkTaken
  PROVE  IInv'
<1>1. /\ call.data \in Nat /\ call.send \in Nat /\ sent \in Nat
      /\ call.chaining /\ Rest > call.send /\ Chunk = call.send
  BY SMT DEF IInv, TypeOK, Commands, ChunkTaken, More, Chunk
<1>2. sent' \in Nat /\ sent <= sent' /\ sent' <= call.data
  BY <1>1, SMT DEF ChunkTaken, Rest
<1>3. received' = Bytes(0, sent')
  <2>1. received' = Bytes(0, sent) \o Bytes(sent, sent')
    BY DEF IInv, Sending, ChunkTaken, Sends
  <2>2. QED
    BY <1>1, <1>2, <2>1, BytesJoin
<1>4. received' \in Seq(Nat)
  BY <1>2, <1>3, BytesLen
<1>5. pc = "send" /\ UNCHANGED <<call, pc, le, resp, sw, rc, executed, total, given>>
  BY DEF ChunkTaken, Sends
<1>6. TypeOK'
  BY <1>2, <1>4, <1>5, SMT DEF IInv, TypeOK
<1>7. Sending' /\ Underway' /\ Fetching'
  BY <1>3, <1>5, SMT DEF IInv, Sending, Underway, Fetching
<1>8. ChunkFits'
  BY <1>1, <1>5, SMT DEF ChunkFits, ChunkTaken, Sends, MaxLc, Extended
<1>9. RunsWholeOnce' /\ NoOpenChain' /\ AnswerComplete' /\ AnswerInOrder'
  BY <1>5, SMT DEF IInv, RunsWholeOnce, NoOpenChain, AnswerComplete, AnswerInOrder
<1>10. QED
  BY <1>6, <1>7, <1>8, <1>9 DEF IInv

(* A step that ends the command with an error leaves nothing to show but   *)
(* what the card has and how far the buffer is filled.                     *)
LEMMA ErrorInv ==
  ASSUME IInv, pc' = "idle", rc' \in {"wrong_length", "failed", "card_error"},
         UNCHANGED <<call, sent, resp, total, given>>,
         sw' \in StatusWords, le' \in Nat,
         \/ received' = <<>>
         \/ received' = received /\ sw'.sw1 = "length",
         executed' \in {<<>>, <<Bytes(0, call.data)>>}
  PROVE  IInv'
<1>1. call.data \in Nat
  BY SMT DEF IInv, TypeOK, Commands
<1>2. executed' \in Seq(Seq(Nat))
  BY <1>1, OneRun, EmptySeq
<1>3. received' \in Seq(Nat)
  BY EmptySeq DEF IInv, TypeOK
<1>4. TypeOK'
  BY <1>2, <1>3, SMT DEF IInv, TypeOK, Phases, Results
<1>5. Sending' /\ ChunkFits' /\ Underway' /\ Fetching'
  BY SMT DEF Sending, ChunkFits, Underway, Fetching
<1>6. RunsWholeOnce' /\ NoOpenChain' /\ AnswerComplete'
  BY SMT DEF RunsWholeOnce, NoOpenChain, AnswerComplete
<1>7. AnswerInOrder'
  BY SMT DEF IInv, AnswerInOrder
<1>8. QED
  BY <1>4, <1>5, <1>6, <1>7 DEF IInv

LEMMA ChunkRefusedInv ==
  ASSUME IInv, ChunkRefused
  PROVE  IInv'
<1>1. pc' = "idle" /\ rc' \in {"wrong_length", "failed", "card_error"}
  BY DEF ChunkRefused, Return
<1>2. received' = <<>> /\ executed' = <<>> /\ UNCHANGED <<call, sent, le, resp, sw, total, given>>
  BY DEF ChunkRefused, Sends, IInv, Sending
<1>3. sw' \in StatusWords /\ le' \in Nat
  BY <1>2 DEF IInv, TypeOK
<1>4. QED
  BY <1>1, <1>2, <1>3, ErrorInv

LEMMA RunOnce ==
  ASSUME IInv, Closes
  PROVE  /\ pc \in {"send", "resend"}
         /\ Append(executed, received \o Bytes(sent, call.data)) = <<Bytes(0, call.data)>>
<1>1. pc \in {"send", "resend"}
  BY DEF Closes, Sends
<1>2. sent \in Nat /\ call.data \in Nat /\ sent <= call.data
  BY SMT DEF IInv, TypeOK, Commands
<1>3. received \o Bytes(sent, call.data) = Bytes(0, call.data)
  BY <1>1, <1>2, BytesJoin DEF IInv, Sending
<1>4. executed = <<>>
  BY <1>1 DEF IInv, Sending
<1>5. QED
  BY <1>1, <1>3, <1>4, FirstRun

LEMMA TransmitFailedInv ==
  ASSUME IInv, TransmitFailed
  PROVE  IInv'
<1>1. pc' = "idle" /\ rc' \in {"wrong_length", "failed", "card_error"}
  BY DEF TransmitFailed, Return
<1>2. received' = <<>> /\ UNCHANGED <<call, sent, le, resp, sw, total, given>>
  BY DEF TransmitFailed
<1>3. executed' \in {<<>>, <<Bytes(0, call.data)>>}
  BY RunOnce DEF TransmitFailed, IInv, RunsWholeOnce
<1>4. sw' \in StatusWords /\ le' \in Nat
  BY <1>2 DEF IInv, TypeOK
<1>5. QED
  BY <1>1, <1>2, <1>3, <1>4, ErrorInv

LEMMA LengthNamedInv ==
  ASSUME IInv, LengthNamed
  PROVE  IInv'
<1>1. PICK s \in WithCount("length") :
        \/ /\ pc = "resend" \/ call.noretry
           /\ sw' = s /\ pc' = "idle" /\ rc' = "success" /\ le' = le
        \/ sw' = s /\ pc' = "idle" /\ rc' = "wrong_length" /\ le' = le
        \/ sw' = s /\ pc' = "resend" /\ le' = Length(s) /\ rc' = rc
  BY SMT DEF LengthNamed, Finish, Return
<1>2. UNCHANGED <<call, sent, resp, received, executed, total, given>>
  BY DEF LengthNamed, cardVars
<1>3. s \in StatusWords /\ s.sw1 = "length" /\ Length(s) \in Nat \ {0}
  BY StatusKinds
<1>4. pc \in {"send", "resend"}
  BY RunOnce DEF LengthNamed
<1>5. TypeOK'
  BY <1>1, <1>2, <1>3, SMT DEF IInv, TypeOK, Phases, Results
<1>6. Sending' /\ ChunkFits' /\ Underway' /\ Fetching'
  BY <1>1, <1>2, <1>3, <1>4, SMT DEF IInv, Sending, ChunkFits, Underway, Fetching
<1>7. RunsWholeOnce' /\ NoOpenChain'
  BY <1>1, <1>2, <1>3, SMT DEF IInv, RunsWholeOnce, NoOpenChain
<1>8. AnswerComplete'
  BY <1>1, <1>3, SMT DEF AnswerComplete, Status
<1>9. AnswerInOrder'
  BY <1>2, SMT DEF IInv, AnswerInOrder
<1>10. QED
  BY <1>5, <1>6, <1>7, <1>8, <1>9 DEF IInv

LEMMA RefusedInv ==
  ASSUME IInv, Refused
  PROVE  IInv'
<1>1. /\ sw' = Status("error") /\ pc' = "idle" /\ rc' = "success" /\ le' = le
      /\ received' = <<>> /\ UNCHANGED <<call, sent, resp, executed, total, given>>
  BY DEF Refused, Finish, Return
<1>2. Status("error") \in StatusWords /\ Status("error").sw1 = "error"
  BY StatusKinds
<1>3. TypeOK'
  BY <1>1, <1>2, SMT DEF IInv, TypeOK, Phases, Results
<1>4. Sending' /\ ChunkFits' /\ Underway' /\ Fetching'
  BY <1>1, SMT DEF Sending, ChunkFits, Underway, Fetching
<1>5. RunsWholeOnce' /\ NoOpenChain'
  BY <1>1, <1>2, SMT DEF IInv, RunsWholeOnce, NoOpenChain
<1>6. AnswerComplete'
  BY <1>1, SMT DEF AnswerComplete, Status
<1>7. AnswerInOrder'
  BY <1>1, SMT DEF IInv, AnswerInOrder
<1>8. QED
  BY <1>3, <1>4, <1>5, <1>6, <1>7 DEF IInv

LEMMA ExecutedInv ==
  ASSUME IInv, Executed
  PROVE  IInv'
<1> PICK t \in 0..MaxAnswer :
      \E k \in 0..Lesser(t, le) :
        /\ total' = t /\ given' = k
        /\ resp' = Bytes(0, Lesser(k, call.cap))
        /\ \/ /\ k = t
              /\ \E s \in {Status("ok"), Status("eof")} : Finish(s)
           \/ \E s \in WithCount("more") :
                IF call.noresp THEN Finish(s) ELSE FetchRest(s)
  BY DEF Executed
<1>1. PICK k \in 0..Lesser(t, le) :
        /\ total' = t /\ given' = k
        /\ resp' = Bytes(0, Lesser(k, call.cap))
        /\ \/ /\ k = t
              /\ \E s \in {Status("ok"), Status("eof")} : Finish(s)
           \/ \E s \in WithCount("more") :
                IF call.noresp THEN Finish(s) ELSE FetchRest(s)
  OBVIOUS
<1>2. /\ call \in Commands /\ call.data \in Nat /\ call.cap \in Nat
      /\ le \in Nat /\ sent \in Nat
  BY SMT DEF IInv, TypeOK, Commands
<1>3. t \in Nat /\ t <= MaxAnswer /\ k \in Nat /\ k <= t /\ k <= le
  <2>1. t \in Nat /\ t <= MaxAnswer
    BY BlockNat, SMT
  <2>2. Lesser(t, le) \in Nat /\ Lesser(t, le) <= t /\ Lesser(t, le) <= le
    BY <1>2, <2>1, LesserNat
  <2>3. QED
    BY <1>2, <2>1, <2>2, SMT
<1>4. /\ Lesser(k, call.cap) \in Nat /\ resp' \in Seq(Nat)
      /\ Len(resp') = Lesser(k, call.cap) /\ resp' = Bytes(0, Len(resp'))
      /\ Len(resp') <= k /\ Len(resp') <= call.cap
      /\ Len(resp') = k \/ Len(resp') = call.cap
  <2>1. /\ Lesser(k, call.cap) \in Nat
        /\ Lesser(k, call.cap) <= k /\ Lesser(k, call.cap) <= call.cap
        /\ Lesser(k, call.cap) = k \/ Lesser(k, call.cap) = call.cap
    BY <1>2, <1>3, LesserNat
  <2>2. resp' \in Seq(Nat) /\ Len(resp') = Lesser(k, call.cap)
    BY <1>1, <2>1, FirstBytes
  <2>3. QED
    BY <1>1, <2>1, <2>2, SMT
<1>5. pc \in {"send", "resend"} /\ executed' = <<Bytes(0, call.data)>>
  BY RunOnce DEF Executed
<1>6. /\ call' = call /\ sent' = call.data /\ received' = <<>>
      /\ executed' \in Seq(Seq(Nat)) /\ received' \in Seq(Nat)
  BY <1>2, <1>5, OneRun, EmptySeq DEF Executed
<1>7. call.le # 0 => le # 0
  BY <1>2, <1>5, SMT DEF IInv, Underway
<1>8. \/ /\ pc' = "idle" /\ rc' = "success" /\ le' = le /\ sw' \in StatusWords
         /\ sw' = Status("ok") /\ call.le # 0 => k = t \/ Len(resp') = call.cap
      \/ /\ pc' = "get" /\ rc' = rc /\ le' \in Nat /\ sw' \in StatusWords
         /\ Len(resp') # call.cap
  <2>1. CASE k = t /\ \E s \in {Status("ok"), Status("eof")} : Finish(s)
    BY <2>1, StatusKinds, SMT DEF Finish, Return
  <2>2. ASSUME NEW s \in WithCount("more"), call.noresp, Finish(s)
        PROVE  <1>8!1
    BY <2>2, StatusKinds, SMT DEF Finish, Return, Status
  <2>3. ASSUME NEW s \in WithCount("more"), FetchRest(s)
        PROVE  <1>8!1 \/ <1>8!2
    <3>1. CASE le = 0 \/ Len(resp') = call.cap
      BY <1>2, <1>7, <2>3, <3>1, StatusKinds, SMT DEF FetchRest, Finish, Return
    <3>2. CASE ~(le = 0 \/ Len(resp') = call.cap)
      BY <2>3, <3>2, StatusKinds, SMT DEF FetchRest
    <3>3. QED
      BY <3>1, <3>2
  <2>4. QED
    BY <1>1, <2>1, <2>2, <2>3
<1>9. TypeOK'
  BY <1>1, <1>2, <1>3, <1>4, <1>6, <1>8, SMT DEF IInv, TypeOK, Phases, Results
<1>10. Sending' /\ ChunkFits' /\ Underway'
  BY <1>5, <1>8, SMT DEF IInv, Sending, ChunkFits, Underway
<1>11. Fetching'
  BY <1>1, <1>2, <1>3, <1>4, <1>5, <1>6, <1>8, SMT DEF Fetching
<1>12. RunsWholeOnce' /\ NoOpenChain'
  BY <1>5, <1>6, SMT DEF RunsWholeOnce, NoOpenChain
<1>13. AnswerInOrder'
  BY <1>1, <1>4, <1>6, SMT DEF AnswerInOrder
<1>14. AnswerComplete'
  <2>1. SUFFICES ASSUME rc' = "success", sw' = Status("ok"), call.le # 0, pc' = "idle",
                        k = t \/ Len(resp') = call.cap
                 PROVE  Len(resp') = Lesser(call.cap, t)
    <3>1. CASE pc' = "idle"
      BY <1>1, <1>6, <1>8, <2>1, <3>1, SMT DEF AnswerComplete
    <3>2. CASE pc' = "get"
      BY <1>5, <1>8, <3>2, SMT DEF IInv, AnswerComplete, Underway
    <3>3. QED
      BY <1>8, <3>1, <3>2
  <2>2. QED
    BY <1>2, <1>3, <1>4, <2>1, SMT DEF Lesser
<1>15. QED
  BY <1>9, <1>10, <1>11, <1>12, <1>13, <1>14 DEF IInv

LEMMA FetchingFacts ==
  ASSUME IInv, Gets
  PROVE  /\ call \in Commands /\ call.cap \in Nat /\ call.data \in Nat
         /\ total \in Nat /\ total <= MaxAnswer /\ given \in Nat /\ given <= total
         /\ resp = Bytes(0, given) /\ Len(resp) = given /\ given < call.cap
         /\ received = <<>> /\ executed = <<Bytes(0, call.data)>> /\ rc = "none"
         /\ le \in Nat /\ Asked \in Nat /\ sw \in StatusWords
<1>1. pc \in {"get", "reget"}
  BY DEF Gets
<1>2. call \in Commands /\ call.cap \in Nat /\ call.data \in Nat /\ le \in Nat
  BY SMT DEF IInv, TypeOK, Commands
<1>3. total \in Nat /\ total <= MaxAnswer /\ given \in Nat /\ given <= total
  BY BlockNat, SMT DEF IInv, TypeOK
<1>4. /\ Len(resp) = given /\ given < call.cap
      /\ received = <<>> /\ executed = <<Bytes(0, call.data)>> /\ rc = "none"
  BY <1>1, SMT DEF IInv, Fetching, Underway
<1>5. resp = Bytes(0, given)
  BY <1>4 DEF IInv, AnswerInOrder
<1>6. Asked \in Nat
  BY <1>2, BlockNat, LesserNat DEF Asked
<1>7. QED
  BY <1>2, <1>3, <1>4, <1>5, <1>6 DEF IInv, TypeOK

LEMMA PartGivenInv ==
  ASSUME IInv, PartGiven
  PROVE  IInv'
<1>1. PICK k \in 1..Lesser(Asked, total - given) :
       /\ given' = given + k
       /\ resp' = resp \o Bytes(given, given + Lesser(k, call.cap - Len(resp)))
       /\ \/ given' = total /\ Finish(Status("ok"))
          \/ \E s \in WithCount("more") :
               IF Len(resp') = call.cap THEN Finish(Status("ok"))
               ELSE pc' = "get" /\ le' = Length(s) /\ sw' = s /\ UNCHANGED rc
  BY DEF PartGiven
<1>2. UNCHANGED <<call, sent, received, executed, total>>
  BY DEF PartGiven
<1>3. /\ call \in Commands /\ call.cap \in Nat /\ call.data \in Nat
      /\ total \in Nat /\ total <= MaxAnswer /\ given \in Nat /\ given <= total
      /\ resp = Bytes(0, given) /\ Len(resp) = given /\ given < call.cap
      /\ received = <<>> /\ executed = <<Bytes(0, call.data)>> /\ rc = "none"
      /\ le \in Nat /\ Asked \in Nat /\ sw \in StatusWords
  BY FetchingFacts DEF PartGiven
<1>4. k \in Nat /\ k > 0 /\ given + k <= total
  <2>1. total - given \in Nat
    BY <1>3, SMT
  <2>2. Lesser(Asked, total - given) \in Nat /\ Lesser(Asked, total - given) <= total - given
    BY <1>3, <2>1, LesserNat
  <2>3. QED
    BY <1>3, <2>2, SMT
<1> DEFINE m == Lesser(k, call.cap - given)
<1>5. /\ m \in Nat /\ m <= k /\ given + m <= call.cap
      /\ m = k \/ given + m = call.cap
  <2>1. call.cap - given \in Nat
    BY <1>3, SMT
  <2>2. /\ m \in Nat /\ m <= k /\ m <= call.cap - given
        /\ m = k \/ m = call.cap - given
    BY <1>4, <2>1, LesserNat
  <2> HIDE DEF m
  <2>3. QED
    BY <1>3, <2>2, SMT
<1>6. resp' = Bytes(0, given + m) /\ resp' \in Seq(Nat) /\ Len(resp') = given + m
  <2>1. resp' = Bytes(0, given) \o Bytes(given, given + m)
    BY <1>1, <1>3
  <2> HIDE DEF m
  <2>2. given + m \in Nat /\ given <= given + m
    BY <1>3, <1>5, SMT
  <2>3. QED
    BY <1>3, <2>1, <2>2, BytesJoin, FirstBytes
<1> HIDE DEF m
<1>7. /\ sw' \in StatusWords /\ le' \in Nat
      /\ \/ /\ pc' = "idle" /\ rc' = "success"
            /\ given + k = total \/ given + m = call.cap
         \/ pc' = "get" /\ rc' = rc /\ given + m # call.cap
  <2>1. CASE given' = total /\ Finish(Status("ok"))
    BY <1>1, <1>3, <2>1, StatusKinds DEF Finish, Return
  <2>2. ASSUME NEW s \in WithCount("more"),
               IF Len(resp') = call.cap THEN Finish(Status("ok"))
               ELSE pc' = "get" /\ le' = Length(s) /\ sw' = s /\ UNCHANGED rc
        PROVE  <1>7
    BY <1>3, <1>6, <2>2, StatusKinds, SMT DEF Finish, Return
  <2>3. QED
    BY <1>1, <2>1, <2>2
<1>8. TypeOK'
  BY <1>1, <1>2, <1>3, <1>4, <1>6, <1>7, SMT DEF IInv, TypeOK, Phases, Results
<1>9. Sending' /\ ChunkFits' /\ Underway'
  BY <1>3, <1>7, SMT DEF Sending, ChunkFits, Underway
<1>10. Fetching'
  <2>1. pc' = "get" => m = k /\ given + m < call.cap
    BY <1>3, <1>5, <1>7, SMT
  <2>2. pc' = "get" => Len(resp') = given' /\ given' < call.cap'
    BY <1>1, <1>2, <1>6, <2>1
  <2>3. pc' \in {"idle", "get"}
    BY <1>7
  <2>4. received' = <<>> /\ executed' = <<Bytes(0, call.data)>> /\ call' = call
    BY <1>2, <1>3
  <2>5. QED
    BY <2>2, <2>3, <2>4 DEF Fetching
<1>11. RunsWholeOnce' /\ NoOpenChain'
  BY <1>2, <1>3, SMT DEF RunsWholeOnce, NoOpenChain
<1>12. AnswerInOrder'
  BY <1>1, <1>2, <1>3, <1>4, <1>5, <1>6, SMT DEF AnswerInOrder
<1>13. AnswerComplete'
  <2>1. CASE pc' = "idle"
    <3>1. Len(resp') = Lesser(call.cap, total)
      BY <1>3, <1>4, <1>5, <1>6, <1>7, <2>1, SMT DEF Lesser
    <3>2. QED
      BY <1>2, <3>1 DEF AnswerComplete
  <2>2. CASE pc' = "get" /\ rc' = rc
    BY <1>3, <2>2 DEF AnswerComplete
  <2>3. QED
    BY <1>7, <2>1, <2>2
<1>14. QED
  BY <1>8, <1>9, <1>10, <1>11, <1>12, <1>13 DEF IInv

LEMMA NothingGivenInv ==
  ASSUME IInv, NothingGiven
  PROVE  IInv'
<1>1. /\ given = total /\ sw' = Status("ok") /\ pc' = "idle" /\ rc' = "success" /\ le' = le
      /\ UNCHANGED <<call, sent, resp, received, executed, total, given>>
  BY DEF NothingGiven, Finish, Return, cardVars
<1>2. /\ call.cap \in Nat /\ given \in Nat
      /\ Len(resp) = given /\ given < call.cap
      /\ received = <<>> /\ executed = <<Bytes(0, call.data)>>
  BY FetchingFacts DEF NothingGiven
<1>3. TypeOK'
  BY <1>1, StatusKinds, SMT DEF IInv, TypeOK, Phases, Results
<1>4. Sending' /\ ChunkFits' /\ Underway' /\ Fetching'
  BY <1>1, SMT DEF Sending, ChunkFits, Underway, Fetching
<1>5. RunsWholeOnce' /\ NoOpenChain' /\ AnswerInOrder'
  BY <1>1, <1>2, SMT DEF IInv, RunsWholeOnce, NoOpenChain, AnswerInOrder
<1>6. AnswerComplete'
  <2>1. Len(resp) = Lesser(call.cap, total)
    BY <1>1, <1>2, SMT DEF Lesser
  <2>2. QED
    BY <1>1, <2>1 DEF AnswerComplete
<1>7. QED
  BY <1>3, <1>4, <1>5, <1>6 DEF IInv

LEMMA PartLengthNamedInv ==
  ASSUME IInv, PartLengthNamed
  PROVE  IInv'
<1>1. PICK s \in WithCount("length") :
        \/ pc' = "idle" /\ rc' = "wrong_length" /\ le' = le
        \/ pc' = "reget" /\ le' = Length(s) /\ rc' = rc
  BY SMT DEF PartLengthNamed, Return
<1>2. UNCHANGED <<call, sent, resp, sw, received, executed, total, given>>
  BY DEF PartLengthNamed, cardVars
<1>3. Gets /\ Length(s) \in Nat
  BY StatusKinds, SMT DEF PartLengthNamed, Gets
<1>4. /\ le \in Nat /\ sw \in StatusWords /\ rc = "none"
      /\ received = <<>> /\ executed = <<Bytes(0, call.data)>>
  BY <1>3, FetchingFacts
<1>5. CASE pc' = "idle" /\ rc' = "wrong_length" /\ le' = le
  BY <1>2, <1>4, <1>5, ErrorInv
<1>6. CASE pc' = "reget" /\ le' = Length(s) /\ rc' = rc
  <2>1. TypeOK'
    BY <1>2, <1>3, <1>6, SMT DEF IInv, TypeOK, Phases
  <2>2. Sending' /\ ChunkFits' /\ Underway'
    BY <1>4, <1>6, SMT DEF Sending, ChunkFits, Underway
  <2>3. Fetching'
    BY <1>2, <1>3, <1>6, SMT DEF IInv, Fetching, Gets
  <2>4. RunsWholeOnce' /\ NoOpenChain' /\ AnswerInOrder' /\ AnswerComplete'
    BY <1>2, <1>4, <1>6, SMT
    DEF IInv, RunsWholeOnce, NoOpenChain, AnswerInOrder, AnswerComplete
  <2>5. QED
    BY <2>1, <2>2, <2>3, <2>4 DEF IInv
<1>7. QED
  BY <1>1, <1>5, <1>6

LEMMA PartRefusedInv ==
  ASSUME IInv, PartRefused
  PROVE  IInv'
<1>1. Gets /\ pc' = "idle" /\ rc' = "card_error"
  BY DEF PartRefused, Return
<1>2. UNCHANGED <<call, sent, le, resp, sw, received, executed, total, given>>
  BY DEF PartRefused, cardVars
<1>3. /\ le \in Nat /\ sw \in StatusWords
      /\ received = <<>> /\ executed = <<Bytes(0, call.data)>>
  BY <1>1, FetchingFacts
<1>4. QED
  BY <1>1, <1>2, <1>3, ErrorInv

LEMMA StutterInv ==
  ASSUME IInv, UNCHANGED vars
  PROVE  IInv'
<1>1. TypeOK' /\ Sending' /\ ChunkFits' /\ Underway' /\ Fetching'
  BY SMT DEF IInv, vars, TypeOK, Sending, ChunkFits, Underway, Fetching, MaxLc, Extended
<1>2. RunsWholeOnce' /\ NoOpenChain' /\ AnswerInOrder' /\ AnswerComplete'
  BY SMT DEF IInv, vars, RunsWholeOnce, NoOpenChain, AnswerInOrder, AnswerComplete
<1>3. QED
  BY <1>1, <1>2 DEF IInv

-----------------------------------------------------------------------------
(* The inductive invariant of sc_transmit_apdu: where the command, its     *)
(* chain and its answer stand before every APDU.                           *)
THEOREM TransmitInvariant == Spec => []IInv
<1>1. IInv /\ Next => IInv'
  BY StartInv, ChunkTooLongInv, ChunkTakenInv, ChunkRefusedInv, ExecutedInv, LengthNamedInv,
     RefusedInv, PartGivenInv, NothingGivenInv, PartLengthNamedInv, PartRefusedInv,
     TransmitFailedInv
  DEF Next, Exchange
<1>2. IInv /\ [Next]_vars => IInv'
  BY <1>1, StutterInv
<1>3. QED
  BY InitInv, <1>2, PTL DEF Spec

(* The variables of sc_transmit_apdu and of the card keep their types.     *)
THEOREM TransmitTypeCorrect == Spec => []TypeOK
<1>1. IInv => TypeOK
  BY DEF IInv
<1>2. QED
  BY <1>1, TransmitInvariant, PTL

(* The card runs each command of a driver at most once, and only on all of *)
(* its data, whatever becomes of the chunks, the retry and the answer; a   *)
(* driver told 9000 has had it run.                                        *)
THEOREM CommandRunsWholeOnce == Spec => []RunsWholeOnce
<1>1. IInv => RunsWholeOnce
  BY DEF IInv
<1>2. QED
  BY <1>1, TransmitInvariant, PTL

(* Only a 6Cxx to its last chunk leaves a chain open, as an error.         *)
THEOREM ChainIsClosed == Spec => []NoOpenChain
<1>1. IInv => NoOpenChain
  BY DEF IInv
<1>2. QED
  BY <1>1, TransmitInvariant, PTL

(* The buffer holds the beginning of the answer and does not run over.     *)
THEOREM AnswerIsInOrder == Spec => []AnswerInOrder
<1>1. IInv => AnswerInOrder
  BY DEF IInv
<1>2. QED
  BY <1>1, TransmitInvariant, PTL

(* 9000 to a driver that asked for data is the whole answer, as far as the *)
(* buffer holds it.                                                        *)
THEOREM AnswerIsComplete == Spec => []AnswerComplete
<1>1. IInv => AnswerComplete
  BY DEF IInv
<1>2. QED
  BY <1>1, TransmitInvariant, PTL

-----------------------------------------------------------------------------
(* How many APDUs a command may still take, whatever the card announces:   *)
(* each chunk has data, each part of the answer fills the buffer by a      *)
(* byte, and either may be asked for once more.                            *)
Ahead ==
  CASE pc = "idle"   -> 0
    [] pc = "send"   -> (call.data - sent) + 2 * call.cap + 4
    [] pc = "resend" -> 2 * call.cap + 3
    [] pc = "get"    -> 2 * (call.cap - Len(resp)) + 2
    [] pc = "reget"  -> 2 * (call.cap - Len(resp)) + 1

LEMMA AheadIs ==
  ASSUME IInv
  PROVE  /\ pc = "idle" => Ahead = 0
         /\ pc = "send" => Ahead = (call.data - sent) + 2 * call.cap + 4
         /\ pc = "resend" => Ahead = 2 * call.cap + 3
         /\ pc = "get" => Ahead = 2 * (call.cap - given) + 2
         /\ pc = "reget" => Ahead = 2 * (call.cap - given) + 1
         /\ pc \in Phases /\ call.cap \in Nat /\ call.data \in Nat /\ sent \in Nat
         /\ sent <= call.data /\ given \in Nat
         /\ pc \in {"get", "reget"} => given < call.cap
<1>1. /\ call.cap \in Nat /\ call.data \in Nat /\ sent \in 0..call.data /\ pc \in Phases
      /\ given \in 0..total /\ total \in 0..MaxAnswer
  BY DEF IInv, TypeOK, Commands
<1>2. pc \in {"get", "reget"} => Len(resp) = given /\ given < call.cap
  BY DEF IInv, Fetching
<1>3. sent \in Nat /\ sent <= call.data /\ given \in Nat
  BY <1>1, BlockNat
<1> QED
  BY <1>1, <1>2, <1>3 DEF Ahead

(* The next state's Ahead, as AheadIs has it.                              *)
LEMMA AheadNext ==
  ASSUME IInv'
  PROVE  /\ pc' = "idle" => Ahead' = 0
         /\ pc' = "send" => Ahead' = (call'.data - sent') + 2 * call'.cap + 4
         /\ pc' = "resend" => Ahead' = 2 * call'.cap + 3
         /\ pc' = "get" => Ahead' = 2 * (call'.cap - given') + 2
         /\ pc' = "reget" => Ahead' = 2 * (call'.cap - given') + 1
         /\ call'.cap \in Nat /\ given' \in Nat
         /\ pc' \in {"get", "reget"} => given' < call'.cap
<1>1. /\ call'.cap \in Nat /\ given' \in 0..total' /\ total' \in 0..MaxAnswer
  BY DEF IInv, TypeOK, Commands
<1>2. pc' \in {"get", "reget"} => Len(resp') = given' /\ given' < call'.cap
  BY DEF IInv, Fetching
<1>3. given' \in Nat
  BY <1>1, BlockNat
<1> QED
  BY <1>1, <1>2, <1>3 DEF Ahead

LEMMA StepIsCounted ==
  ASSUME IInv, IInv', Exchange
  PROVE  Ahead' \in Nat /\ Ahead' < Ahead
<1> DEFINE c == call.cap
<1>1. c \in Nat /\ call.data \in Nat /\ sent \in Nat /\ sent <= call.data
  BY AheadIs
<1>2. pc # "idle"
  BY DEF Exchange, ChunkTooLong, ChunkTaken, ChunkRefused, Executed, LengthNamed, Refused,
     PartGiven, NothingGiven, PartLengthNamed, PartRefused, TransmitFailed, Sends, Closes, Gets
<1>3. Ahead \in Nat /\ Ahead > 0
  BY <1>1, <1>2, AheadIs DEF Phases
<1>4. ASSUME pc' = "idle"
      PROVE  Ahead' \in Nat /\ Ahead' < Ahead
  BY <1>3, <1>4, AheadNext
<1>5. CASE \/ ChunkTooLong \/ ChunkRefused \/ Refused \/ NothingGiven \/ PartRefused
           \/ TransmitFailed
  BY <1>4, <1>5 DEF ChunkTooLong, ChunkRefused, Refused, NothingGiven, PartRefused,
     TransmitFailed, Return, Finish
<1>6. CASE ChunkTaken
  <2>1. /\ pc = "send" /\ pc' = "send" /\ call' = call /\ sent' = sent + call.send
        /\ call.data - sent > call.send
    BY <1>6 DEF ChunkTaken, Sends, Chunk, More, Rest
  <2>2. call.send \in Nat \ {0}
    BY DEF IInv, TypeOK, Commands
  <2>3. Ahead = (call.data - sent) + 2 * c + 4
    BY <2>1, AheadIs
  <2>4. Ahead' = (call.data - (sent + call.send)) + 2 * c + 4
    BY <2>1, AheadNext
  <2> HIDE DEF c
  <2> QED
    BY <1>1, <2>1, <2>2, <2>3, <2>4
<1>7. Closes => Ahead >= 2 * c + 3
  <2>1. Closes => pc \in {"send", "resend"}
    BY DEF Closes, Sends
  <2>2. 2 * c \in Nat /\ call.data - sent \in Nat
    BY <1>1
  <2> QED
    BY <2>1, <2>2, AheadIs
<1>8. CASE Executed
  <2>1. pc' \in {"idle", "get"} /\ call' = call /\ Closes
    BY <1>8 DEF Executed, Finish, FetchRest, Return
  <2>2. CASE pc' = "get"
    <3>1. Ahead' = 2 * (c - given') + 2 /\ given' \in Nat /\ given' < c
      BY <2>1, <2>2, AheadNext
    <3>2. Ahead >= 2 * c + 3
      BY <1>7, <2>1
    <3> HIDE DEF c
    <3>3. \A x, y, z \in Nat : y < x /\ z >= 2 * x + 3
            => 2 * (x - y) + 2 \in Nat /\ 2 * (x - y) + 2 < z
      OBVIOUS
    <3>4. 2 * (c - given') + 2 \in Nat /\ 2 * (c - given') + 2 < Ahead
      BY <1>1, <1>3, <3>1, <3>2, <3>3, Zenon
    <3> QED
      BY <3>1, <3>4, Zenon
  <2> QED
    BY <1>4, <2>1, <2>2
<1>9. CASE LengthNamed
  <2>1. Closes /\ call' = call /\ (pc' = "idle" \/ (pc = "send" /\ pc' = "resend"))
    BY <1>9 DEF LengthNamed, Finish, Return, Closes, Sends
  <2>2. CASE pc = "send" /\ pc' = "resend"
    <3>1. Ahead' = 2 * c + 3 /\ Ahead = (call.data - sent) + 2 * c + 4
      BY <2>1, <2>2, AheadIs, AheadNext
    <3> HIDE DEF c
    <3> QED
      BY <1>1, <3>1
  <2> QED
    BY <1>4, <2>1, <2>2
<1>10. CASE PartGiven
  <2>1. /\ Gets /\ call' = call /\ pc' \in {"idle", "get"}
        /\ \E k \in 1..Lesser(Asked, total - given) : given' = given + k
    BY <1>10 DEF PartGiven, Finish, Return
  <2>2. CASE pc' = "get"
    <3>1. PICK k \in 1..Lesser(Asked, total - given) : given' = given + k
      BY <2>1
    <3>2. /\ given \in Nat /\ given < c /\ Asked \in Nat /\ total \in Nat /\ given <= total
      BY <2>1, FetchingFacts
    <3>3. total - given \in Nat
      BY <3>2
    <3>4. Lesser(Asked, total - given) \in Nat
      BY <3>2, <3>3, LesserNat
    <3>5. k \in Nat /\ k >= 1
      BY <3>1, <3>4
    <3>6. Ahead' = 2 * (c - (given + k)) + 2 /\ given + k < c
      BY <2>1, <2>2, <3>1, AheadNext
    <3>7. Ahead >= 2 * (c - given) + 1
      <4>1. pc \in {"get", "reget"}
        BY <2>1 DEF Gets
      <4>2. c - given \in Nat
        BY <1>1, <3>2
      <4> QED
        BY <4>1, <4>2, AheadIs
    <3> HIDE DEF c
    <3> QED
      BY <1>1, <1>3, <3>2, <3>5, <3>6, <3>7
  <2> QED
    BY <1>4, <2>1, <2>2
<1>11. CASE PartLengthNamed
  <2>1. /\ pc = "get" /\ call' = call /\ pc' \in {"idle", "reget"} /\ given' = given
    BY <1>11 DEF PartLengthNamed, Return, cardVars
  <2>2. CASE pc' = "reget"
    <3>1. /\ Ahead = 2 * (c - given) + 2 /\ Ahead' = 2 * (c - given) + 1
          /\ given \in Nat /\ given < c
      BY <2>1, <2>2, AheadIs, AheadNext
    <3> HIDE DEF c
    <3> QED
      BY <1>1, <3>1
  <2> QED
    BY <1>4, <2>1, <2>2
<1> QED
  BY <1>5, <1>6, <1>8, <1>9, <1>10, <1>11 DEF Exchange

(* Every APDU brings the end of its command nearer, whatever the card      *)
(* announces, refuses or asks to have sent again: a command takes no more  *)
(* APDUs than Ahead says when it starts.                                   *)
THEOREM EveryExchangeCounts ==
  Spec => [][Exchange => Ahead' \in Nat /\ Ahead' < Ahead]_vars
<1>1. IInv /\ IInv' /\ [Next]_vars => [Exchange => Ahead' \in Nat /\ Ahead' < Ahead]_vars
  BY StepIsCounted
<1> QED
  BY TransmitInvariant, <1>1, PTL DEF Spec
=============================================================================
