------------------------------ MODULE Transmit ------------------------------
(* sc_transmit_apdu (libopensc/apdu.c): one command of a card driver, sent *)
(* in as many APDUs as it takes.  The data goes out in chained chunks, a   *)
(* command refused with 6Cxx is sent once more with the Le the card names, *)
(* and after 61xx the rest of the answer is fetched with GET RESPONSE.     *)
(* The caller holds the card lock throughout (CardLock), so nobody else    *)
(* talks to the card between two APDUs of a command.                       *)
(*                                                                         *)
(* A byte is named by its place: the command's data are the bytes 1..n and *)
(* the card's answer is 1..total.  The card is external: it takes, runs or *)
(* refuses a command, promises any amount of data, and the reader may fail *)
(* at every APDU.                                                          *)
EXTENDS Integers, Sequences, SequencesExt

CONSTANTS
  Block,       \* 256: what SW2 = 0 stands for in 61xx and 6Cxx
  ExtBlock,    \* 65536: the same for extended APDUs
  MaxRecv,     \* sc_get_max_recv_size
  MaxAnswer,   \* bound: longest answer
  Calls        \* the commands the drivers send

(* A command as a driver fills in struct sc_apdu: Lc, Le, the size of the  *)
(* buffer, and the flags SC_APDU_FLAGS_CHAINING, SC_APDU_FLAGS_NO_GET_RESP *)
(* and SC_APDU_FLAGS_NO_RETRY_WL; with the card it is for: its             *)
(* sc_get_max_send_size, and whether it knows extended APDUs.              *)
Commands == [data : Nat, le : Nat, cap : Nat, send : Nat \ {0}, extcard : BOOLEAN,
             chaining : BOOLEAN, noresp : BOOLEAN, noretry : BOOLEAN]

(* Every driver that sets SC_APDU_FLAGS_CHAINING has data to send.         *)
ASSUME TransmitAssumption ==
  /\ {Block, ExtBlock, MaxRecv} \subseteq Nat \ {0}
  /\ MaxAnswer \in Nat
  /\ \A c \in Calls : c \in Commands /\ (c.chaining => c.data > 0)

VARIABLES
  call,      \* the command under way: struct sc_apdu as the driver filled it in
  pc,        \* the APDU to send next: see Phases; "idle" between commands
  sent,      \* bytes of the data in the chunks before this one
  le,        \* Le of that APDU
  resp,      \* apdu->resp[0 .. resplen)
  sw,        \* SW1 and SW2 of the last APDU
  rc,        \* what sc_transmit_apdu returned
  received,  \* card: the bytes of an unfinished chain
  executed,  \* card: the data of each command it ran for this call
  total,     \* card: the length of its answer
  given      \* card: how much of the answer it has sent

cardVars == <<received, executed, total, given>>
vars == <<call, pc, sent, le, resp, sw, rc, received, executed, total, given>>

-----------------------------------------------------------------------------
(* The phases: a chunk or command, the same with the Le the card named,    *)
(* GET RESPONSE, GET RESPONSE with the Le the card named.                  *)
Phases == {"idle", "send", "resend", "get", "reget"}

Results == {"none", "success", "invalid", "wrong_length", "failed", "card_error"}

(* Status words: 9000, 61xx, 6Cxx, 6282 (the end of the data), an error.   *)
StatusWords == [sw1 : {"ok", "more", "length", "eof", "error"}, sw2 : 0..Block - 1]
Status(c)  == [sw1 |-> c, sw2 |-> 0]
WithCount(c) == [sw1 : {c}, sw2 : 0..Block - 1]

(* SW2 as a length.                                                        *)
Length(s) == IF s.sw2 # 0 THEN s.sw2 ELSE Block

Lesser(a, b) == IF a < b THEN a ELSE b

(* The bytes a+1 .. b.                                                     *)
Bytes(a, b) == [i \in 1..(b - a) |-> a + i]

(* sc_detect_apdu_cse: an APDU is extended when its lengths need it and    *)
(* the card can; its data alone do not need it when they may be chained.   *)
Extended(c) ==
  c.extcard /\ (c.le > Block \/ (c.data >= Block /\ ~c.chaining))

(* The data an APDU of this kind holds.                                    *)
MaxLc(c) == (IF Extended(c) THEN ExtBlock ELSE Block) - 1

(* sc_check_apdu, for the APDU case that the lengths call for.             *)
Consistent(c) ==
  /\ c.le <= MaxLc(c) + 1
  /\ c.chaining \/ c.data <= MaxLc(c)
  /\ c.le # 0 => c.cap # 0

(* The chunk loop: all that is left, or as much as the card takes and more *)
(* to come.                                                                *)
Rest  == call.data - sent
More  == call.chaining /\ Rest > call.send
Chunk == IF More THEN call.send ELSE Rest

-----------------------------------------------------------------------------
Init ==
  /\ call = [data |-> 0, le |-> 0, cap |-> 0, send |-> 1, extcard |-> FALSE,
             chaining |-> FALSE, noresp |-> FALSE, noretry |-> FALSE]
  /\ pc = "idle" /\ sent = 0 /\ le = 0 /\ resp = <<>>
  /\ sw = Status("ok") /\ rc = "none"
  /\ received = <<>> /\ executed = <<>> /\ total = 0 /\ given = 0

(* sc_transmit_apdu returns to the driver.                                 *)
Return(r) == pc' = "idle" /\ rc' = r

(* The command is done and its status is the driver's to look at.          *)
Finish(s) == sw' = s /\ Return("success") /\ UNCHANGED le

(* Mutant: the place in the data is not set back.                          *)
StartKeepsPlace(c) ==
  /\ pc = "idle"
  /\ call' = c /\ le' = c.le /\ resp' = <<>> /\ sw' = Status("ok")
  /\ IF Consistent(c) THEN pc' = "send" /\ rc' = "none" ELSE Return("invalid")
  /\ received' = <<>> /\ executed' = <<>> /\ total' = 0 /\ given' = 0 /\ UNCHANGED sent

(* sc_transmit_apdu: what sc_check_apdu refuses is not sent.  The card     *)
(* takes up no chain that an earlier command left open.                    *)
Start(c) ==
  /\ pc = "idle"
  /\ call' = c /\ sent' = 0 /\ le' = c.le /\ resp' = <<>> /\ sw' = Status("ok")
  /\ IF Consistent(c)
       THEN pc' = "send" /\ rc' = "none" ELSE Return("invalid")
  /\ received' = <<>> /\ executed' = <<>> /\ total' = 0 /\ given' = 0

(* A chunk that sc_check_apdu refuses once it stands alone.                *)
ChunkTooLong ==
  /\ pc = "send" /\ call.chaining /\ Chunk > MaxLc(call)
  /\ Return("invalid")
  /\ UNCHANGED <<call, sent, le, resp, sw, cardVars>>

Sends == pc = "send" /\ (call.chaining => Chunk <= MaxLc(call))

(* The APDU to send is the last chunk or the whole command.                *)
Closes == pc = "resend" \/ (Sends /\ ~More)

(* Mutant: a chunk that gets 61xx ends the command.                        *)
ChunkTakenEnds ==
  /\ Sends /\ More
  /\ received' = received \o Bytes(sent, sent + Chunk)
  /\ sent' = sent + Chunk
  /\ (UNCHANGED <<pc, rc>> \/ Return("card_error"))
  /\ UNCHANGED <<call, le, resp, sw, executed, total, given>>

(* The card takes a chunk of a chain.  A chunk is sent with Le 0 and no    *)
(* buffer, so that a 61xx here counts as 9000.                             *)
ChunkTaken ==
  /\ Sends /\ More
  /\ received' = received \o Bytes(sent, sent + Chunk)
  /\ sent' = sent + Chunk
  /\ UNCHANGED <<call, pc, le, resp, sw, rc, executed, total, given>>

(* Mutant: the status of a chunk is not looked at.                         *)
ChunkStatusIgnored ==
  /\ Sends /\ More
  /\ received' = <<>>
  /\ sent' = sent + Chunk
  /\ UNCHANGED <<call, pc, le, resp, sw, rc, executed, total, given>>

(* It refuses it: sc_check_sw ends the loop.  A 6Cxx asks for more than    *)
(* the chunk's empty buffer holds.                                         *)
ChunkRefused ==
  /\ Sends /\ More
  /\ \E r \in {"card_error", "wrong_length"} : Return(r)
  /\ received' = <<>>
  /\ UNCHANGED <<call, sent, le, resp, sw, executed, total, given>>

-----------------------------------------------------------------------------
(* Mutant: the rest is fetched only if no data came with 61xx.             *)
FetchRestOnce(s) ==
  IF le = 0 \/ Len(resp') = call.cap \/ resp' # <<>>
    THEN Finish(Status("ok"))
    ELSE pc' = "get" /\ le' = Length(s) /\ sw' = s /\ UNCHANGED rc

(* sc_get_response from its first line to the first GET RESPONSE: nothing  *)
(* was asked for, the buffer is full, or there is a rest to fetch.         *)
FetchRest(s) ==
  IF le = 0 \/ Len(resp') = call.cap
    THEN Finish(Status("ok"))
    ELSE pc' = "get" /\ le' = Length(s) /\ sw' = s /\ UNCHANGED rc

(* sc_transmit, the answer to the last chunk or to the whole command: the  *)
(* card runs it, sends the beginning of its answer (sc_apdu_set_resp keeps *)
(* what fits) and may announce more.                                       *)
Executed ==
  /\ Closes
  /\ executed' = Append(executed, received \o Bytes(sent, call.data))
  /\ received' = <<>> /\ sent' = call.data
  /\ \E t \in 0..MaxAnswer : \E k \in 0..Lesser(t, le) :
       /\ total' = t /\ given' = k
       /\ resp' = Bytes(0, Lesser(k, call.cap))
       /\ \/ /\ k = t
             /\ \E s \in {Status("ok"), Status("eof")} : Finish(s)
          \/ \E s \in WithCount("more") :
               IF call.noresp THEN Finish(s) ELSE FetchRest(s)
  /\ UNCHANGED call

(* Mutant: SC_APDU_FLAGS_NO_RETRY_WL is not set for the retry.             *)
LengthNamedAgain ==
  /\ Closes
  /\ \E s \in WithCount("length") :
       IF call.noretry THEN Finish(s)
       ELSE /\ sw' = s
            /\ IF call.cap < Length(s) THEN Return("wrong_length") /\ UNCHANGED le
               ELSE pc' = "resend" /\ le' = Length(s) /\ UNCHANGED rc
  /\ UNCHANGED <<call, sent, resp, cardVars>>

(* 6Cxx: sc_set_le_and_transmit, once and if the buffer is large enough.   *)
LengthNamed ==
  /\ Closes
  /\ \E s \in WithCount("length") :
       IF pc = "resend" \/ call.noretry THEN Finish(s)
       ELSE /\ sw' = s
            /\ IF call.cap < Length(s) THEN Return("wrong_length") /\ UNCHANGED le
               ELSE pc' = "resend" /\ le' = Length(s) /\ UNCHANGED rc
  /\ UNCHANGED <<call, sent, resp, cardVars>>

(* Any other status: the driver's sc_check_sw turns it into an error.      *)
Refused ==
  /\ Closes
  /\ Finish(Status("error"))
  /\ received' = <<>>
  /\ UNCHANGED <<call, sent, resp, executed, total, given>>

-----------------------------------------------------------------------------
(* iso7816_get_response, inside the loop of sc_get_response.               *)
Gets == pc \in {"get", "reget"}

(* It asks for at most max_recv_size bytes.                                *)
Asked == Lesser(le, MaxRecv)

(* Mutant: each part is copied to the beginning of the buffer.             *)
PartOverwrites ==
  /\ Gets
  /\ \E k \in 1..Lesser(Asked, total - given) :
       /\ given' = given + k
       /\ resp' = Bytes(given, given + Lesser(k, call.cap - Len(resp)))
       /\ \/ given' = total /\ Finish(Status("ok"))
          \/ \E s \in WithCount("more") :
               IF Len(resp') = call.cap THEN Finish(Status("ok"))
               ELSE pc' = "get" /\ le' = Length(s) /\ sw' = s /\ UNCHANGED rc
  /\ UNCHANGED <<call, sent, received, executed, total>>

(* The card sends a part of its answer and announces more or, when there   *)
(* is no more, ends it; the loop ends with the answer or with the buffer.  *)
PartGiven ==
  /\ Gets
  /\ \E k \in 1..Lesser(Asked, total - given) :
       /\ given' = given + k
       /\ resp' = resp \o Bytes(given, given + Lesser(k, call.cap - Len(resp)))
       /\ \/ given' = total /\ Finish(Status("ok"))
          \/ \E s \in WithCount("more") :
               IF Len(resp') = call.cap THEN Finish(Status("ok"))
               ELSE pc' = "get" /\ le' = Length(s) /\ sw' = s /\ UNCHANGED rc
  /\ UNCHANGED <<call, sent, received, executed, total>>

(* An answer without data: 9000 ends the loop, whatever was announced.     *)
NothingGiven ==
  /\ Gets /\ given = total
  /\ Finish(Status("ok"))
  /\ UNCHANGED <<call, sent, resp, cardVars>>

(* 6Cxx to GET RESPONSE: once more, if the length asked for is enough.     *)
PartLengthNamed ==
  /\ pc = "get"
  /\ \E s \in WithCount("length") :
       IF Asked < Length(s) THEN Return("wrong_length") /\ UNCHANGED le
       ELSE pc' = "reget" /\ le' = Length(s) /\ UNCHANGED rc
  /\ UNCHANGED <<call, sent, resp, sw, cardVars>>

(* An error, an announcement without data, a second 6Cxx.                  *)
PartRefused ==
  /\ Gets
  /\ Return("card_error")
  /\ UNCHANGED <<call, sent, le, resp, sw, cardVars>>

(* The reader driver fails: the card was reset or removed, before it ran   *)
(* the command or after, and has no chain to continue.                     *)
TransmitFailed ==
  /\ Sends \/ pc \in {"resend", "get", "reget"}
  /\ Return("failed")
  /\ received' = <<>>
  /\ \/ UNCHANGED executed
     \/ /\ Closes
        /\ executed' = Append(executed, received \o Bytes(sent, call.data))
  /\ UNCHANGED <<call, sent, le, resp, sw, total, given>>

-----------------------------------------------------------------------------
Exchange ==
  \/ ChunkTooLong \/ ChunkTaken \/ ChunkRefused
  \/ Executed \/ LengthNamed \/ Refused
  \/ PartGiven \/ NothingGiven \/ PartLengthNamed \/ PartRefused
  \/ TransmitFailed

Next == (\E c \in Calls : Start(c)) \/ Exchange

Spec == Init /\ [][Next]_vars

(* The reader answers every APDU or reports that it failed.                *)
FairSpec == Spec /\ WF_vars(Exchange)

-----------------------------------------------------------------------------
(* Every variable keeps its type; the place in the data never passes its   *)
(* end, and the card never gives more than its answer.                     *)
TypeOK ==
  /\ call \in Commands
  /\ pc \in Phases
  /\ sent \in 0..call.data
  /\ le \in Nat
  /\ resp \in Seq(Nat)
  /\ sw \in StatusWords
  /\ rc \in Results
  /\ received \in Seq(Nat)
  /\ executed \in Seq(Seq(Nat))
  /\ total \in 0..MaxAnswer
  /\ given \in 0..total

(* The card never runs a command on a part of its data, on data in the     *)
(* wrong order or with bytes of an earlier command, and never runs it      *)
(* twice, whatever it refused, announced or asked to have sent again; and  *)
(* a driver that is told 9000 has had its command run.                     *)
RunsWholeOnce ==
  /\ executed \in {<<>>, <<Bytes(0, call.data)>>}
  /\ (rc = "success" /\ sw.sw1 \in {"ok", "eof"}) => executed # <<>>

(* A chain is left open on the card only where a 6Cxx to its last chunk    *)
(* ends the command with an error: on every other way out the last chunk   *)
(* has closed it or the card has dropped it.                               *)
NoOpenChain == (pc = "idle" /\ received # <<>>) => sw.sw1 = "length"

(* What is in the buffer is the beginning of the answer, without a hole    *)
(* and without more than the card has sent, and fits in the buffer.        *)
AnswerInOrder ==
  /\ resp = Bytes(0, Len(resp))
  /\ Len(resp) <= given
  /\ Len(resp) <= call.cap

(* 9000 to a driver that asked for data means that it has the whole        *)
(* answer, or as much of it as its buffer holds.                           *)
AnswerComplete ==
  (rc = "success" /\ sw = Status("ok") /\ call.le # 0 /\ ~call.noresp)
    => Len(resp) = Lesser(call.cap, total)

(* Every command ends, whatever the card announces: each APDU sends data,  *)
(* fills the buffer or uses up the one retry.                              *)
CommandEnds == pc # "idle" ~> pc = "idle"
=============================================================================
