----------------------------- MODULE BoundaryProofs ----------------------------
(***************************************************************************)
(* What Boundary promises for every repository, every text and every limit: *)
(* the types of the state, events that arrive as they were sent, damaged ones *)
(* refused or read without what is behind them, a buffer found too small three *)
(* times only when the repository changed three times, whole answers, commands *)
(* queued once, and the refinement of AtomicQuery. What the codec computes of *)
(* what was written comes from WireCodecProofs; what its readers make of other *)
(* bytes is in the lemmas here.                                            *)
(***************************************************************************)
EXTENDS Boundary, WireCodecProofs

Query == {"asking", "sizing", "retry"}

(* The codec loses nothing (api.rs' Cursor against Shim.cs' writers, and     *)
(* UiBridge.cs' Command.Decode against UiCommand::encode): every answer of  *)
(* the repository and every command that the tab takes is read as it was    *)
(* written, whatever the numbers, texts and limits.                         *)
THEOREM CodecRoundTrip == RoundTrip
<1>1. ASSUME NEW q \in DataQueries, NEW v \in Sdk(q) \ {Unavailable}
      PROVE  Helper(q, WriteAnswer(q, v)) = Answered(q, v)
  <2>1. q \in 1..12 /\ v \in Answers(q)
    BY <1>1 DEF DataQueries, UnknownQuery, Sdk
  <2> QED
    BY <2>1, AnswersRead
<1>2. ASSUME NEW c \in UiCommands, Acceptable(c)
      PROVE  CommandDecode(Encode(c).value) = [ok |-> TRUE, value |-> c] /\ CommandValid(c)
  <2>1. Encode(c).ok /\ CommandDecode(Encode(c).value).ok
    BY <1>2 DEF Acceptable
  <2> QED
    BY <2>1, CommandsRead
<1> QED
  BY <1>1, <1>2 DEF RoundTrip

LEMMA AnswersAreBytes ==
  ASSUME NEW q \in DataQueries, NEW v \in Sdk(q), v # Unavailable
  PROVE  WriteAnswer(q, v) \in Seq(Byte)
<1>1. q \in 1..12 /\ v \in Answers(q)
  BY DEF DataQueries, UnknownQuery, Sdk
<1> QED
  BY <1>1, AnswersRead

(* What every step keeps: the state of a call that has not returned.        *)
CallInv ==
  /\ pc \in Query \cup {"done"} =>
       \/ kind \in DataQueries /\ sdk \in Sdk(kind) /\ sent = <<>>
       \/ kind = UiQuery /\ sent \in UiCommands /\ sdk = <<>>
  /\ pc = "sizing" => attached
  /\ pc = "sizing" /\ kind = UiQuery => Encode(sent).ok /\ wire = Encode(sent).value
  /\ queued # <<>> => pc = "done" /\ kind = UiQuery
  /\ pc \in {"idle", "event", "received", "asking", "sizing"} => tries = 0 /\ required = 0
  /\ pc \in {"idle", "event", "received"} => changes = 0

(* The buffer is smaller than the answer only after another change.         *)
SizeInv ==
  pc = "retry" =>
    /\ attached
    /\ required \in Nat
    /\ tries <= changes
    /\ tries = changes /\ sdk # Unavailable => Len(WriteAnswer(kind, sdk)) <= required

Inv == TypeOK /\ CallInv /\ SizeInv /\ StableAnswered

-------------------------------------------------------------------------------
(* What CommonBridge.Query returns to a data query.                         *)
LEMMA DataReplies ==
  ASSUME kind \in DataQueries, sdk \in Sdk(kind), NEW len \in Nat,
         NEW reply \in Replies(len)
  PROVE  /\ reply.commands = <<>>
         /\ \/ sdk = Unavailable /\ reply.status = "PluginError"
            \/ /\ sdk # Unavailable
               /\ WriteAnswer(kind, sdk) \in Seq(Byte)
               /\ reply.size = Len(WriteAnswer(kind, sdk)) /\ reply.size \in Nat
               /\ \/ reply.status = "Ok" /\ reply.size <= len /\ reply.bytes = WriteAnswer(kind, sdk)
                  \/ reply.status = "BufferTooSmall" /\ len < reply.size
<1>1. kind # UiQuery
  BY DEF DataQueries, UnknownQuery, UiQuery
<1>2. reply = DataReply(len)
  BY <1>1 DEF Replies
<1>3. CASE sdk = Unavailable
  BY <1>2, <1>3 DEF DataReply, Rejection, Reply
<1>4. CASE sdk # Unavailable
  <2>1. WriteAnswer(kind, sdk) \in Seq(Byte)
    BY <1>4, AnswersAreBytes
  <2>2. Len(WriteAnswer(kind, sdk)) \in Nat
    BY <2>1
  <2>3. reply = Serve(WriteAnswer(kind, sdk), len)
    BY <1>2, <1>4 DEF DataReply
  <2> QED
    BY <2>1, <2>2, <2>3, <1>4 DEF Serve, Reply
<1> QED
  BY <1>3, <1>4

(* What it returns to a UI command, whatever the buffer.                    *)
LEMMA CommandReplies ==
  ASSUME kind = UiQuery, NEW len, NEW reply \in Replies(len)
  PROVE  \/ reply = Rejection /\ ~(accepting /\ ~(Len(wire) > MaxPayload) /\ CommandDecode(wire).ok)
         \/ /\ accepting /\ ~(Len(wire) > MaxPayload) /\ CommandDecode(wire).ok
            /\ reply.commands = <<CommandDecode(wire).value>>
            /\ \/ reply.status = "Ok" /\ reply.size = 0
               \/ reply.status = "PluginError"
<1>1. reply \in Queue(CommandDecode(wire))
  BY DEF Replies
<1>2. CASE Len(wire) > MaxPayload \/ ~CommandDecode(wire).ok \/ ~accepting
  <2>1. reply = Rejection
    BY <1>1, <1>2 DEF Queue
  <2> QED
    BY <2>1, <1>2
<1>3. CASE ~(Len(wire) > MaxPayload \/ ~CommandDecode(wire).ok \/ ~accepting)
  BY <1>1, <1>3 DEF Queue, Rejection, Reply
<1> QED
  BY <1>2, <1>3

-------------------------------------------------------------------------------
LEMMA InvInit == Init => Inv
BY DEF Init, Inv, TypeOK, CallInv, SizeInv, StableAnswered, Queried, Query, UiQuery,
       Pending, Fail, DataQueries, UnknownQuery

(* An action that does not touch the call keeps the invariant.              *)
LEMMA KeepCall ==
  ASSUME Inv, accepting' \in BOOLEAN,
         UNCHANGED <<pc, call, attached, sdk, changes, required, tries, queued, outcome>>
  PROVE  Inv'
BY DEF Inv, TypeOK, CallInv, SizeInv, StableAnswered, Queried, call

LEMMA InvEvents ==
  ASSUME Inv, EmitEvent \/ Damage \/ ReceiveEvent
  PROVE  Inv'
<1>1. CASE EmitEvent
  <2>1. kind' \in EventKind
    <3>1. PICK k \in EventKind : sent'.kind \in {k}
      BY <1>1 DEF EmitEvent, Events
    <3> QED
      BY <1>1, <3>1 DEF EmitEvent
  <2> QED
    BY <1>1, <2>1 DEF EmitEvent, Inv, TypeOK, CallInv, SizeInv, StableAnswered, Queried,
       EventKind, UiQuery, Query, host
<1>2. CASE Damage
  <2>1. /\ pc = "event" /\ damage' \in {"cut", "grown", "changed", "kind"}
        /\ kind' \in {kind, 12}
        /\ UNCHANGED <<pc, sent, attached, accepting, sdk, changes, required, tries, queued, outcome>>
    BY <1>2 DEF Damage, host
  <2> QED
    BY <2>1 DEF Inv, TypeOK, CallInv, SizeInv, StableAnswered, Queried, UiQuery, Query
<1>3. CASE ReceiveEvent
  BY <1>3 DEF ReceiveEvent, Inv, TypeOK, CallInv, SizeInv, StableAnswered, Queried,
     Query, host, call
<1> QED
  BY <1>1, <1>2, <1>3

LEMMA InvAsk ==
  ASSUME Inv, Ask \/ Begin
  PROVE  Inv'
<1>1. CASE Ask
  <2>1. kind' \in 0..UiQuery
    BY <1>1 DEF Ask, DataQueries, UnknownQuery, UiQuery
  <2>2. /\ pc = "idle" /\ pc' = "asking"
        /\ \/ kind' \in DataQueries /\ sdk' \in Sdk(kind') /\ sent' = <<>>
           \/ kind' = UiQuery /\ sdk' = <<>> /\ sent' \in UiCommands
        /\ UNCHANGED <<damage, attached, accepting, changes, required, tries, queued>>
    BY <1>1 DEF Ask, host
  <2> QED
    BY <2>1, <2>2 DEF Inv, TypeOK, CallInv, SizeInv, StableAnswered, Queried, Query
<1>2. CASE Begin
  <2>1. PICK request \in {Request} :
          /\ wire' = IF request.ok THEN request.value ELSE <<>>
          /\ \/ request.ok /\ attached /\ pc' = "sizing" /\ UNCHANGED outcome
             \/ request.ok /\ ~attached /\ pc' = "done" /\ outcome' = Fail("NotInitialized")
             \/ ~request.ok /\ pc' = "done" /\ outcome' = Fail("InvalidUi")
    BY <1>2 DEF Begin
  <2>2. kind = UiQuery => request = Encode(sent)
    BY DEF Request, UiQuery
  <2>3. ~StableAnswered' => FALSE
    BY <2>1, <1>2 DEF Begin, StableAnswered, Queried, Fail
  <2>4. UNCHANGED <<kind, sent, damage, attached, accepting, sdk, changes, required, tries, queued>>
    BY <1>2 DEF Begin, host
  <2>5. pc = "asking" /\ pc' \in {"sizing", "done"}
    BY <2>1, <1>2 DEF Begin
  <2>6. TypeOK'
    BY <2>4, <2>5 DEF Inv, TypeOK, CallInv
  <2>7. CallInv'
    <3>1. pc' = "sizing" => attached' /\ (kind' = UiQuery => Encode(sent').ok /\ wire' = Encode(sent').value)
      BY <2>1, <2>2, <2>4
    <3> QED
      BY <2>4, <2>5, <3>1 DEF Inv, CallInv, Query
  <2> QED
    BY <2>3, <2>5, <2>6, <2>7 DEF Inv, SizeInv
<1> QED
  BY <1>1, <1>2

LEMMA InvSizing ==
  ASSUME Inv, SizingCall
  PROVE  Inv'
<1>1. PICK reply \in Replies(0) :
        /\ queued' = queued \o reply.commands
        /\ \/ /\ reply.status = "Ok" /\ reply.size = 0
              /\ pc' = "done" /\ outcome' = Finish(<<>>) /\ UNCHANGED required
           \/ /\ reply.status = "BufferTooSmall" \/ (reply.status = "Ok" /\ reply.size # 0)
              /\ pc' = "retry" /\ required' = reply.size /\ UNCHANGED outcome
           \/ /\ reply.status \notin {"Ok", "BufferTooSmall"}
              /\ pc' = "done" /\ outcome' = Fail(reply.status) /\ UNCHANGED required
  BY DEF SizingCall
<1>2. /\ pc = "sizing" /\ attached /\ tries = 0 /\ queued = <<>>
      /\ UNCHANGED <<kind, sent, wire, damage, attached, accepting, sdk, changes, tries>>
  BY DEF SizingCall, Inv, CallInv, call, host
<1>3. CASE kind \in DataQueries
  <2>1. sdk \in Sdk(kind) /\ kind # UiQuery
    BY <1>2, <1>3 DEF Inv, CallInv, Query, UiQuery, DataQueries, UnknownQuery
  <2>2. /\ reply.commands = <<>>
        /\ \/ sdk = Unavailable /\ reply.status = "PluginError"
           \/ /\ sdk # Unavailable
              /\ reply.size = Len(WriteAnswer(kind, sdk)) /\ reply.size \in Nat
              /\ \/ reply.status = "Ok" /\ reply.size <= 0
                 \/ reply.status = "BufferTooSmall" /\ 0 < reply.size
    BY <1>3, <2>1, DataReplies
  <2>3. queued' = <<>>
    BY <1>1, <1>2, <2>2
  <2>4. /\ \/ pc' = "done" /\ required' = required
           \/ pc' = "retry" /\ required' = Len(WriteAnswer(kind, sdk)) /\ required' \in Nat
    BY <1>1, <2>2
  <2>5. TypeOK'
    BY <1>2, <1>3, <2>4 DEF Inv, TypeOK
  <2>6. CallInv'
    BY <1>2, <1>3, <2>3, <2>4 DEF Inv, CallInv, Query
  <2>7. SizeInv'
    BY <1>2, <2>4 DEF Inv, SizeInv, TypeOK
  <2>8. ~outcome'.ok /\ pc' = "done" => outcome'.reason # "BufferTooSmall"
    BY <1>1, <1>3, <2>1 DEF Finish, Checked, Fail
  <2> QED
    BY <2>5, <2>6, <2>7, <2>8 DEF Inv, StableAnswered, Queried
<1>4. CASE kind \notin DataQueries
  <2>1. kind = UiQuery /\ sent \in UiCommands /\ sdk = <<>>
    BY <1>2, <1>4 DEF Inv, CallInv, Query
  <2>2. pc' = "done" /\ required' = required
    BY <1>1, <2>1, CommandReplies DEF Rejection, Reply
  <2>3. TypeOK'
    BY <1>2, <2>2 DEF Inv, TypeOK
  <2>4. CallInv'
    BY <1>2, <2>1, <2>2 DEF Inv, CallInv, Query
  <2> QED
    BY <1>2, <1>4, <2>2, <2>3, <2>4 DEF Inv, SizeInv, StableAnswered, Queried
<1> QED
  BY <1>3, <1>4

LEMMA InvBuffered ==
  ASSUME Inv, BufferedCall
  PROVE  Inv'
<1>1. PICK reply \in Replies(required) :
        /\ queued' = queued \o reply.commands
        /\ \/ /\ reply.status = "Ok"
              /\ pc' = "done"
              /\ outcome' = IF reply.size > required THEN Fail("Malformed")
                            ELSE Finish(reply.bytes)
              /\ UNCHANGED <<required, tries>>
           \/ /\ reply.status = "BufferTooSmall"
              /\ required' = reply.size
              /\ tries' = IF tries < 3 THEN tries + 1 ELSE tries
              /\ \/ tries + 1 < RetryLimit /\ UNCHANGED <<pc, outcome>>
                 \/ tries + 1 = RetryLimit /\ pc' = "done" /\ outcome' = Fail(reply.status)
           \/ /\ reply.status \notin {"Ok", "BufferTooSmall"}
              /\ pc' = "done" /\ outcome' = Fail(reply.status)
              /\ UNCHANGED <<required, tries>>
  BY DEF BufferedCall
<1>2. /\ pc = "retry" /\ attached /\ queued = <<>>
      /\ kind \in DataQueries /\ sdk \in Sdk(kind) /\ kind # UiQuery
      /\ tries \in 0..2 /\ changes \in 0..3 /\ required \in Nat
      /\ UNCHANGED <<kind, sent, wire, damage, attached, accepting, sdk, changes>>
  BY DEF BufferedCall, Inv, TypeOK, CallInv, SizeInv, Query, call, host, UiQuery,
     DataQueries, UnknownQuery
<1>3. /\ reply.commands = <<>>
      /\ \/ sdk = Unavailable /\ reply.status = "PluginError"
         \/ /\ sdk # Unavailable
            /\ reply.size = Len(WriteAnswer(kind, sdk)) /\ reply.size \in Nat
            /\ \/ reply.status = "Ok" /\ reply.size <= required
               \/ reply.status = "BufferTooSmall" /\ required < reply.size
  BY <1>2, DataReplies
<1>4. queued' = <<>>
  BY <1>1, <1>2, <1>3
(* The answer outgrew the buffer: it has changed once more than it was tried. *)
<1>5. CASE reply.status = "BufferTooSmall"
  <2>1. tries < changes
    BY <1>2, <1>3, <1>5 DEF Inv, SizeInv
  <2>2. tries' = tries + 1 /\ required' = Len(WriteAnswer(kind, sdk)) /\ required' \in Nat
    BY <1>1, <1>2, <1>3, <1>5
  <2>3. \/ tries' < 3 /\ pc' = "retry"
        \/ tries' = 3 /\ pc' = "done"
    BY <1>1, <1>2, <1>5, <2>2 DEF RetryLimit
  <2>4. TypeOK'
    BY <1>2, <2>2, <2>3 DEF Inv, TypeOK
  <2>5. CallInv'
    BY <1>2, <1>4, <2>3 DEF Inv, CallInv, Query
  <2>6. SizeInv'
    BY <1>2, <2>1, <2>2, <2>3 DEF Inv, SizeInv
  <2>7. StableAnswered'
    BY <1>2, <2>1, <2>2, <2>3 DEF StableAnswered, Queried
  <2> QED
    BY <2>4, <2>5, <2>6, <2>7 DEF Inv
<1>6. CASE reply.status # "BufferTooSmall"
  <2>1. pc' = "done" /\ UNCHANGED <<required, tries>>
    BY <1>1, <1>6
  <2>2. ~outcome'.ok => outcome'.reason # "BufferTooSmall"
    BY <1>1, <1>2, <1>6 DEF Finish, Checked, Fail
  <2>3. TypeOK'
    BY <1>2, <2>1 DEF Inv, TypeOK
  <2>4. CallInv'
    BY <1>2, <1>4, <2>1 DEF Inv, CallInv, Query
  <2> QED
    BY <2>1, <2>2, <2>3, <2>4 DEF Inv, SizeInv, StableAnswered, Queried
<1> QED
  BY <1>5, <1>6

LEMMA InvReturn ==
  ASSUME Inv, Return
  PROVE  Inv'
BY DEF Return, Inv, TypeOK, CallInv, SizeInv, StableAnswered, Queried, Query, host, UiQuery

LEMMA InvRepository ==
  ASSUME Inv, RepositoryChanges
  PROVE  Inv'
<1>1. /\ pc \in Query /\ kind \in DataQueries /\ kind # UiQuery /\ sdk' \in Sdk(kind)
      /\ changes \in 0..3
      /\ changes' = IF changes < 3 THEN changes + 1 ELSE changes
      /\ UNCHANGED <<pc, kind, sent, wire, damage, attached, accepting, required, tries,
                     queued, outcome>>
  BY DEF RepositoryChanges, Query, Inv, TypeOK, call, host, UiQuery, DataQueries, UnknownQuery
<1>2. TypeOK'
  BY <1>1 DEF Inv, TypeOK
<1>3. CallInv'
  BY <1>1 DEF Inv, CallInv, Query
<1>4. SizeInv'
  <2>1. pc = "retry" => tries \in 0..2 /\ tries < changes'
    BY <1>1 DEF Inv, TypeOK, SizeInv
  <2> QED
    BY <1>1, <2>1 DEF Inv, SizeInv
<1>5. StableAnswered'
  BY <1>1 DEF StableAnswered, Queried, Query
<1> QED
  BY <1>2, <1>3, <1>4, <1>5 DEF Inv

LEMMA InvNext == Inv /\ [Next]_vars => Inv'
<1> SUFFICES ASSUME Inv, [Next]_vars PROVE Inv'
  OBVIOUS
<1>1. CASE EmitEvent \/ Damage \/ ReceiveEvent
  BY <1>1, InvEvents
<1>2. CASE Ask \/ Begin
  BY <1>2, InvAsk
<1>3. CASE SizingCall
  BY <1>3, InvSizing
<1>4. CASE BufferedCall
  BY <1>4, InvBuffered
<1>5. CASE Return
  BY <1>5, InvReturn
<1>6. CASE RepositoryChanges
  BY <1>6, InvRepository
<1>7. CASE TabToggles \/ UNCHANGED vars
  <2>1. accepting' \in BOOLEAN
    BY <1>7 DEF TabToggles, vars, Inv, TypeOK
  <2> QED
    BY <1>7, <2>1, KeepCall DEF TabToggles, vars, call
<1> QED
  BY <1>1, <1>2, <1>3, <1>4, <1>5, <1>6, <1>7 DEF Next, Step

LEMMA InvHolds == Spec => []Inv
BY InvInit, InvNext, PTL DEF Spec

(* A value under way is always in one of the states of its kind of call: a   *)
(* buffer is only ever offered for a query of the repository.               *)
THEOREM TypeCorrect == Spec => []TypeOK
<1>1. Inv => TypeOK
  BY DEF Inv
<1> QED
  BY <1>1, InvHolds, PTL

(* For every repository and however large its answers: a query that gives up *)
(* with BufferTooSmall (api.rs:900) saw its repository change three times.  *)
THEOREM StableQueries == Spec => []StableAnswered
<1>1. Inv => StableAnswered
  BY DEF Inv
<1> QED
  BY <1>1, InvHolds, PTL

-------------------------------------------------------------------------------
(* Bytes that nobody wrote: a reader that accepts some bytes reads the same when x follows  *)
(* them, and leaves x with what it left.                                                   *)
Longer(c, d, x) ==
  c = Refused \/ \E r, s, g : r \in Seq(Byte) /\ Joins(s, r, x) /\ c = At(r, g) /\ d = At(s, g)

LEMMA Alike ==
  ASSUME NEW c, NEW d, NEW x, Longer(c, d, x)
  PROVE  \/ c = Refused /\ ~c.ok
         \/ /\ c.ok /\ d.ok /\ c.got = d.got
            /\ c.rest \in Seq(Byte) /\ Joins(d.rest, c.rest, x)
BY DEF Longer, At, Refused

(* What Take takes off joins with what it leaves. *)
LEMMA Split ==
  ASSUME NEW r \in Seq(Byte), NEW n \in 0..Len(r)
  PROVE  \E a \in Seq(Byte), e \in Seq(Byte) :
           /\ a = SubSeq(r, 1, n) /\ Len(a) = n /\ Joins(r, a, e)
           /\ \A g : Take(At(r, g), n) = At(e, a)
<1>1. PICK k \in Nat : k = Len(r) /\ n \in 0..k
  OBVIOUS
<1>2. PICK a, e : a = SubSeq(r, 1, n) /\ e = SubSeq(r, n + 1, k)
  OBVIOUS
<1>3. a \in Seq(Byte) /\ Len(a) = n /\ \A i \in 1..n : a[i] = r[i]
  <2>1. SubSeq(r, 1, n) \in Seq(Byte) /\ Len(SubSeq(r, 1, n)) = n
        /\ \A i \in 1..n : SubSeq(r, 1, n)[i] = r[i]
    BY <1>1
  <2> QED
    BY <1>2, <2>1, Zenon
<1>4. e \in Seq(Byte) /\ Len(e) = k - n /\ \A i \in 1..(k - n) : e[i] = r[n + i]
  <2>1. SubSeq(r, n + 1, k) \in Seq(Byte) /\ Len(SubSeq(r, n + 1, k)) = k - n
    BY <1>1
  <2>2. \A i \in 1..(k - n) : SubSeq(r, n + 1, k)[i] = r[n + i]
    BY <1>1
  <2> QED
    BY <1>2, <2>1, <2>2, Zenon
<1>5. ASSUME NEW g PROVE Take(At(r, g), n) = At(e, a)
  <2>1. n \in 0..Len(r)
    OBVIOUS
  <2>2. Take(At(r, g), n) =
          [ok |-> TRUE, rest |-> SubSeq(r, n + 1, Len(r)), got |-> SubSeq(r, 1, n)]
    BY <2>1 DEF Take, At
  <2> QED
    BY <1>1, <1>2, <2>2 DEF At
<1>6. PICK h : Joins(h, a, e)
  BY DEF Joins
<1>7. /\ h \in Seq(Byte) /\ Len(h) = Len(a) + Len(e)
      /\ \A i \in 1..Len(a) : h[i] = a[i]
      /\ \A i \in 1..Len(e) : h[Len(a) + i] = e[i]
  <2>1. a \in Seq(Byte) /\ e \in Seq(Byte) /\ Joins(h, a, e)
    BY <1>3, <1>4, <1>6
  <2> QED
    BY ONLY <2>1, JoinedParts, SMTT(30)
<1>8. Len(h) = k
  <2>1. Len(h) = Len(a) + Len(e) /\ Len(a) = n /\ Len(e) = k - n
    BY <1>3, <1>4, <1>7
  <2> QED
    BY <1>1, <2>1
<1>9. ASSUME NEW i \in 1..k PROVE r[i] = h[i]
  <2>1. CASE i <= n
    BY <1>3, <1>7, <2>1
  <2>2. CASE i > n
    <3>1. PICK j \in 1..(k - n) : j = i - n
      BY <1>1, <2>2
    <3>2. n + j = i /\ j \in 1..Len(e) /\ n = Len(a)
      BY <1>1, <1>3, <1>4, <3>1, <2>2
    <3>3. h[n + j] = e[j] /\ e[j] = r[n + j]
      BY <1>4, <1>7, <3>1, <3>2
    <3> QED
      BY <3>2, <3>3
  <2> QED
    BY <1>1, <2>1, <2>2
<1>10. r = h
  BY <1>1, <1>7, <1>8, <1>9, SeqEqual
<1> QED
  BY <1>2, <1>3, <1>4, <1>5, <1>6, <1>10

LEMMA LongerTake ==
  ASSUME NEW x \in Seq(Byte), NEW c, NEW d, Longer(c, d, x), NEW n
  PROVE  Longer(Take(c, n), Take(d, n), x)
<1>1. CASE c = Refused
  BY <1>1 DEF Longer, Take, Refused
<1>2. CASE c # Refused
  <2>1. PICK r, s, g : r \in Seq(Byte) /\ Joins(s, r, x) /\ c = At(r, g) /\ d = At(s, g)
    BY <1>2 DEF Longer
  <2>2. CASE n \notin 0..Len(r)
    <3>1. Take(c, n) = Refused
      BY <2>1, <2>2, Standing DEF Take
    <3> QED
      BY <3>1 DEF Longer
  <2>3. CASE n \in 0..Len(r)
    <3>1. PICK a \in Seq(Byte), e \in Seq(Byte) :
            Len(a) = n /\ Joins(r, a, e) /\ \A h : Take(At(r, h), n) = At(e, a)
      BY <2>1, <2>3, Split
    <3>2. PICK f \in Seq(Byte) : Joins(f, e, x) /\ Joins(s, a, f)
      BY <2>1, <3>1, Moved
    <3>3. Take(At(s, g), n) = At(f, a)
      BY <3>1, <3>2, TakeJoined
    <3> QED
      BY <2>1, <3>1, <3>2, <3>3 DEF Longer
  <2> QED
    BY <2>2, <2>3
<1> QED
  BY <1>1, <1>2

LEMMA LongerValue ==
  ASSUME NEW x, NEW c, NEW d, Longer(c, d, x), NEW v
  PROVE  Longer(Read(c, v), Read(d, v), x)
<1>1. CASE c = Refused
  BY <1>1 DEF Longer, Read, Refused
<1>2. CASE c # Refused
  <2>1. PICK r, s, g : r \in Seq(Byte) /\ Joins(s, r, x) /\ c = At(r, g) /\ d = At(s, g)
    BY <1>2 DEF Longer
  <2>2. Read(c, v) = At(r, v) /\ Read(d, v) = At(s, v)
    BY <2>1, Standing
  <2> QED
    BY <2>1, <2>2 DEF Longer
<1> QED
  BY <1>1, <1>2

LEMMA LongerCollect ==
  ASSUME NEW x, NEW c, NEW d, Longer(c, d, x), NEW e, NEW f, Longer(e, f, x),
         c = Refused => e = Refused
  PROVE  Longer(Collect(c, e), Collect(d, f), x)
<1>1. CASE e = Refused
  <2>1. Collect(c, e) = Refused
    BY <1>1 DEF Collect, Read, Refused
  <2> QED
    BY <2>1 DEF Longer
<1>2. CASE e # Refused
  <2>1. c.got = d.got /\ e.got = f.got
    BY <1>2, Alike
  <2>2. PICK v : v = Append(c.got, e.got)
    OBVIOUS
  <2>3. Collect(c, e) = Read(e, v) /\ Collect(d, f) = Read(f, v)
    BY <2>1, <2>2 DEF Collect
  <2> QED
    BY <2>3, LongerValue
<1> QED
  BY <1>1, <1>2

(* The readers of a field. *)
LEMMA LongerBytes ==
  ASSUME NEW x \in Seq(Byte), NEW c, NEW d, Longer(c, d, x)
  PROVE  Longer(Bytes(c), Bytes(d), x)
<1>1. PICK t, u : t = Take(c, 4) /\ u = Take(d, 4)
  OBVIOUS
<1>2. Longer(t, u, x)
  BY <1>1, LongerTake
<1>3. /\ Bytes(c) = IF t.ok THEN Take(t, Number(t.got)) ELSE Refused
      /\ Bytes(d) = IF u.ok THEN Take(u, Number(u.got)) ELSE Refused
  BY <1>1 DEF Bytes, Then
<1>4. CASE ~t.ok
  BY <1>3, <1>4 DEF Longer
<1>5. CASE t.ok
  <2>1. u.ok /\ t.got = u.got
    BY <1>2, <1>5, Alike
  <2>2. PICK n : n = Number(t.got)
    OBVIOUS
  <2>3. Bytes(c) = Take(t, n) /\ Bytes(d) = Take(u, n)
    BY <1>3, <1>5, <2>1, <2>2
  <2> QED
    BY <1>2, <2>3, LongerTake
<1> QED
  BY <1>4, <1>5

LEMMA LongerStr ==
  ASSUME NEW x \in Seq(Byte), NEW c, NEW d, Longer(c, d, x)
  PROVE  Longer(Str(c), Str(d), x)
<1>1. PICK t, u : t = Bytes(c) /\ u = Bytes(d)
  OBVIOUS
<1>2. Longer(t, u, x)
  BY <1>1, LongerBytes
<1>3. /\ Str(c) = IF t.ok /\ (\A i \in DOMAIN t.got : t.got[i] < 128) THEN t ELSE Refused
      /\ Str(d) = IF u.ok /\ (\A i \in DOMAIN u.got : u.got[i] < 128) THEN u ELSE Refused
  BY <1>1 DEF Str, Then
<1>4. (t = Refused /\ ~t.ok) \/ (t.ok /\ u.ok /\ t.got = u.got)
  BY <1>2, Alike
<1>5. Str(c) = Refused \/ (Str(c) = t /\ Str(d) = u)
  BY <1>3, <1>4
<1> QED
  BY <1>2, <1>5 DEF Longer

LEMMA LongerFlag ==
  ASSUME NEW x \in Seq(Byte), NEW c, NEW d, Longer(c, d, x)
  PROVE  Longer(ReadFlag(c), ReadFlag(d), x)
<1>1. PICK t, u : t = Take(c, 1) /\ u = Take(d, 1)
  OBVIOUS
<1>2. Longer(t, u, x)
  BY <1>1, LongerTake
<1>3. /\ ReadFlag(c) = IF t.ok /\ t.got \in {<<0>>, <<1>>} THEN t ELSE Refused
      /\ ReadFlag(d) = IF u.ok /\ u.got \in {<<0>>, <<1>>} THEN u ELSE Refused
  BY <1>1 DEF ReadFlag, Then
<1>4. (t = Refused /\ ~t.ok) \/ (t.ok /\ u.ok /\ t.got = u.got)
  BY <1>2, Alike
<1>5. ReadFlag(c) = Refused \/ (ReadFlag(c) = t /\ ReadFlag(d) = u)
  BY <1>3, <1>4
<1> QED
  BY <1>2, <1>5 DEF Longer

LEMMA LongerBool ==
  ASSUME NEW x \in Seq(Byte), NEW c, NEW d, Longer(c, d, x)
  PROVE  Longer(ReadBool(c), ReadBool(d), x)
<1>1. PICK t, u : t = Take(c, 1) /\ u = Take(d, 1)
  OBVIOUS
<1>2. Longer(t, u, x)
  BY <1>1, LongerTake
<1>3. /\ ReadBool(c) = IF t.ok THEN Read(t, IF t.got = <<0>> THEN <<0>> ELSE <<1>>) ELSE Refused
      /\ ReadBool(d) = IF u.ok THEN Read(u, IF u.got = <<0>> THEN <<0>> ELSE <<1>>) ELSE Refused
  BY <1>1 DEF ReadBool, Then
<1>4. (t = Refused /\ ~t.ok) \/ (t.ok /\ u.ok /\ t.got = u.got)
  BY <1>2, Alike
<1>5. PICK v : v = IF t.got = <<0>> THEN <<0>> ELSE <<1>>
  OBVIOUS
<1>6. ReadBool(c) = Refused \/ (ReadBool(c) = Read(t, v) /\ ReadBool(d) = Read(u, v))
  BY <1>3, <1>4, <1>5
<1>7. Longer(Read(t, v), Read(u, v), x)
  BY <1>2, LongerValue
<1> QED
  BY <1>6, <1>7 DEF Longer

LEMMA LongerOption ==
  ASSUME NEW x \in Seq(Byte), NEW c, NEW d, Longer(c, d, x)
  PROVE  Longer(ReadOption(c), ReadOption(d), x)
<1>1. PICK t, u : t = ReadFlag(c) /\ u = ReadFlag(d)
  OBVIOUS
<1>2. Longer(t, u, x)
  BY <1>1, LongerFlag
<1>3. /\ ReadOption(c) = IF ~t.ok THEN Refused
                         ELSE IF t.got = <<1>> THEN Take(t, 4) ELSE Read(t, Null)
      /\ ReadOption(d) = IF ~u.ok THEN Refused
                         ELSE IF u.got = <<1>> THEN Take(u, 4) ELSE Read(u, Null)
  BY <1>1 DEF ReadOption, Then
<1>4. (t = Refused /\ ~t.ok) \/ (t.ok /\ u.ok /\ t.got = u.got)
  BY <1>2, Alike
<1>5. Longer(Take(t, 4), Take(u, 4), x) /\ Longer(Read(t, Null), Read(u, Null), x)
  BY <1>2, LongerTake, LongerValue
<1>6. \/ ReadOption(c) = Refused
      \/ ReadOption(c) = Take(t, 4) /\ ReadOption(d) = Take(u, 4)
      \/ ReadOption(c) = Read(t, Null) /\ ReadOption(d) = Read(u, Null)
  BY <1>3, <1>4
<1> QED
  BY <1>5, <1>6 DEF Longer

LEMMA LongerReadWord ==
  ASSUME NEW x \in Seq(Byte), NEW c, NEW d, Longer(c, d, x)
  PROVE  Longer(ReadWord(c), ReadWord(d), x)
BY LongerTake DEF ReadWord

(* No reader goes on from a cursor that was refused. *)
(* A count that ReadList goes by. *)
Counts(c) == Take(c, 4).ok /\ Number(Take(c, 4).got) \in 0..Len(Take(c, 4).rest)

LEMMA LongerCount ==
  ASSUME NEW x \in Seq(Byte), NEW c, NEW d, Longer(c, d, x), Counts(c)
  PROVE  /\ Number(Take(c, 4).got) \in Nat /\ Number(Take(d, 4).got) = Number(Take(c, 4).got)
         /\ Counts(d) /\ Longer(Read(Take(c, 4), <<>>), Read(Take(d, 4), <<>>), x)
<1>1. PICK t, u : t = Take(c, 4) /\ u = Take(d, 4) /\ Longer(t, u, x)
  BY LongerTake
<1>2. t.ok /\ Number(t.got) \in 0..Len(t.rest)
  BY <1>1 DEF Counts
<1>3. u.ok /\ u.got = t.got /\ t.rest \in Seq(Byte) /\ Joins(u.rest, t.rest, x)
  BY <1>1, <1>2, Alike
<1>4. Len(u.rest) = Len(t.rest) + Len(x)
  <2>1. PICK y, z : y = t.rest /\ z = u.rest
    OBVIOUS
  <2>2. y \in Seq(Byte) /\ Joins(z, y, x)
    BY <1>3, <2>1
  <2>3. Len(z) = Len(y) + Len(x)
    BY <2>2, Joined
  <2> QED
    BY <2>1, <2>3
<1>5. PICK n \in Nat : n = Number(t.got) /\ n \in 0..Len(u.rest)
  <2>1. PICK k \in Nat, l \in Nat : k = Len(t.rest) /\ l = Len(x)
    BY <1>3
  <2>2. PICK n : n = Number(t.got)
    OBVIOUS
  <2>3. n \in 0..k /\ Len(u.rest) = k + l
    BY <1>2, <1>4, <2>1, <2>2
  <2>4. n \in Nat /\ n \in 0..Len(u.rest)
    BY <2>3
  <2> QED
    BY <2>2, <2>4
<1>6. Longer(Read(t, <<>>), Read(u, <<>>), x)
  BY <1>1, LongerValue
<1> QED
  BY <1>1, <1>3, <1>5, <1>6 DEF Counts

LEMMA LongerStrs ==
  ASSUME NEW x \in Seq(Byte), NEW c, NEW d, Longer(c, d, x)
  PROVE  Longer(ReadList(c, Str), ReadList(d, Str), x)
<1>1. CASE ~Counts(c)
  <2>1. ReadList(c, Str) = Refused
    BY <1>1, StrsUnfold DEF Counts
  <2> QED
    BY <2>1 DEF Longer
<1>2. CASE Counts(c)
  <2>1. PICK n \in Nat : n = Number(Take(c, 4).got) /\ n = Number(Take(d, 4).got) /\ Counts(d)
    BY <1>2, LongerCount
  <2>2. PICK a, b : a = Read(Take(c, 4), <<>>) /\ b = Read(Take(d, 4), <<>>) /\ Longer(a, b, x)
    BY <1>2, LongerCount
  <2>3. PICK s \in Seq(Nat) : s = Upto(n) /\ Len(s) = n
    BY UptoSeq
  <2>4. ReadList(c, Str) = StrFolds!Fold(a, s) /\ ReadList(d, Str) = StrFolds!Fold(b, s)
    BY <1>2, <2>1, <2>2, <2>3, StrsUnfold DEF Counts
  <2>5. PICK f : StrFolds!Runs(f, a, s)
    BY StrFolds!FoldRuns, Zenon
  <2>6. PICK h : StrFolds!Runs(h, b, s)
    BY StrFolds!FoldRuns, Zenon
  <2> DEFINE T == {m \in 0..n : Longer(f[m], h[m], x)}
  <2>7. 0 \in T
    BY <2>2, <2>5, <2>6 DEF StrFolds!Runs
  <2>8. ASSUME NEW m \in 0..(n - 1), m \in T PROVE m + 1 \in T
    <3>1. Longer(f[m], h[m], x) /\ m + 1 \in 0..n /\ m \in 0..(Len(s) - 1)
      BY <2>3, <2>8
    <3>2. f[m + 1] = Collect(f[m], Str(f[m])) /\ h[m + 1] = Collect(h[m], Str(h[m]))
      BY <2>5, <2>6, <3>1 DEF StrFolds!Runs, StrStep
    <3>3. Longer(Str(f[m]), Str(h[m]), x)
      BY <3>1, LongerStr
    <3>4. f[m] = Refused => Str(f[m]) = Refused
      BY RefusedReads
    <3>5. Longer(f[m + 1], h[m + 1], x)
      BY <3>1, <3>2, <3>3, <3>4, LongerCollect
    <3> QED
      BY <3>1, <3>5
  <2> HIDE DEF T
  <2>9. n \in T
    <3>1. \A m \in 0..n : m \in T
      BY <2>7, <2>8, StrFolds!Induction
    <3> QED
      BY <3>1
  <2>10. Longer(StrFolds!Fold(a, s), StrFolds!Fold(b, s), x)
    BY <2>3, <2>5, <2>6, <2>9 DEF T, StrFolds!Runs
  <2> QED
    BY <2>4, <2>10
<1> QED
  BY <1>1, <1>2

LEMMA LongerWords ==
  ASSUME NEW x \in Seq(Byte), NEW c, NEW d, Longer(c, d, x)
  PROVE  Longer(ReadList(c, ReadWord), ReadList(d, ReadWord), x)
<1>1. CASE ~Counts(c)
  <2>1. ReadList(c, ReadWord) = Refused
    BY <1>1, WordsUnfold DEF Counts
  <2> QED
    BY <2>1 DEF Longer
<1>2. CASE Counts(c)
  <2>1. PICK n \in Nat : n = Number(Take(c, 4).got) /\ n = Number(Take(d, 4).got) /\ Counts(d)
    BY <1>2, LongerCount
  <2>2. PICK a, b : a = Read(Take(c, 4), <<>>) /\ b = Read(Take(d, 4), <<>>) /\ Longer(a, b, x)
    BY <1>2, LongerCount
  <2>3. PICK s \in Seq(Nat) : s = Upto(n) /\ Len(s) = n
    BY UptoSeq
  <2>4. ReadList(c, ReadWord) = WordFolds!Fold(a, s) /\ ReadList(d, ReadWord) = WordFolds!Fold(b, s)
    BY <1>2, <2>1, <2>2, <2>3, WordsUnfold DEF Counts
  <2>5. PICK f : WordFolds!Runs(f, a, s)
    BY WordFolds!FoldRuns, Zenon
  <2>6. PICK h : WordFolds!Runs(h, b, s)
    BY WordFolds!FoldRuns, Zenon
  <2> DEFINE T == {m \in 0..n : Longer(f[m], h[m], x)}
  <2>7. 0 \in T
    BY <2>2, <2>5, <2>6 DEF WordFolds!Runs
  <2>8. ASSUME NEW m \in 0..(n - 1), m \in T PROVE m + 1 \in T
    <3>1. Longer(f[m], h[m], x) /\ m + 1 \in 0..n /\ m \in 0..(Len(s) - 1)
      BY <2>3, <2>8
    <3>2. f[m + 1] = Collect(f[m], ReadWord(f[m])) /\ h[m + 1] = Collect(h[m], ReadWord(h[m]))
      BY <2>5, <2>6, <3>1 DEF WordFolds!Runs, WordStep
    <3>3. Longer(ReadWord(f[m]), ReadWord(h[m]), x)
      BY <3>1, LongerReadWord
    <3>4. f[m] = Refused => ReadWord(f[m]) = Refused
      BY RefusedReads
    <3>5. Longer(f[m + 1], h[m + 1], x)
      BY <3>1, <3>2, <3>3, <3>4, LongerCollect
    <3> QED
      BY <3>1, <3>5
  <2> HIDE DEF T
  <2>9. n \in T
    <3>1. \A m \in 0..n : m \in T
      BY <2>7, <2>8, WordFolds!Induction
    <3> QED
      BY <3>1
  <2>10. Longer(WordFolds!Fold(a, s), WordFolds!Fold(b, s), x)
    BY <2>3, <2>5, <2>6, <2>9 DEF T, WordFolds!Runs
  <2> QED
    BY <2>4, <2>10
<1> QED
  BY <1>1, <1>2

LEMMA LongerField ==
  ASSUME NEW x \in Seq(Byte), NEW c, NEW d, Longer(c, d, x), NEW t \in Types
  PROVE  Longer(ReadField(c, t), ReadField(d, t), x)
<1>1. CASE t = "str"
  <2>1. ReadField(c, t) = Str(c) /\ ReadField(d, t) = Str(d)
    BY <1>1 DEF ReadField
  <2> QED
    BY <2>1, LongerStr
<1>2. CASE t = "bytes"
  <2>1. ReadField(c, t) = Bytes(c) /\ ReadField(d, t) = Bytes(d)
    BY <1>2 DEF ReadField
  <2> QED
    BY <2>1, LongerBytes
<1>3. CASE t = "option"
  <2>1. ReadField(c, t) = ReadOption(c) /\ ReadField(d, t) = ReadOption(d)
    BY <1>3 DEF ReadField
  <2> QED
    BY <2>1, LongerOption
<1>4. CASE t = "flag"
  <2>1. ReadField(c, t) = ReadFlag(c) /\ ReadField(d, t) = ReadFlag(d)
    BY <1>4 DEF ReadField
  <2> QED
    BY <2>1, LongerFlag
<1>5. CASE t = "bool"
  <2>1. ReadField(c, t) = ReadBool(c) /\ ReadField(d, t) = ReadBool(d)
    BY <1>5 DEF ReadField
  <2> QED
    BY <2>1, LongerBool
<1>6. CASE t = "strs"
  <2>1. ReadField(c, t) = ReadList(c, Str) /\ ReadField(d, t) = ReadList(d, Str)
    BY <1>6 DEF ReadField
  <2>2. Longer(ReadList(c, Str), ReadList(d, Str), x)
    BY LongerStrs
  <2> QED
    BY <2>1, <2>2
<1>7. CASE t = "u32s"
  <2>1. ReadField(c, t) = ReadList(c, ReadWord) /\ ReadField(d, t) = ReadList(d, ReadWord)
    BY <1>7 DEF ReadField
  <2>2. Longer(ReadList(c, ReadWord), ReadList(d, ReadWord), x)
    BY LongerWords
  <2> QED
    BY <2>1, <2>2
<1>8. CASE t \notin {"str", "bytes", "strs", "u32s", "option", "flag", "bool"}
  <2>1. ReadField(c, t) = Take(c, Width(t)) /\ ReadField(d, t) = Take(d, Width(t))
    BY <1>8 DEF ReadField
  <2> QED
    BY <2>1, LongerTake
<1> QED
  BY <1>1, <1>2, <1>3, <1>4, <1>5, <1>6, <1>7, <1>8

(* Records. *)
LEMMA LongerFields ==
  ASSUME NEW x \in Seq(Byte), NEW c, NEW d, Longer(c, d, x), NEW layout \in Seq(Types)
  PROVE  Longer(ReadFields(c, layout), ReadFields(d, layout), x)
<1>1. PICK a, b : a = Read(c, <<>>) /\ b = Read(d, <<>>) /\ Longer(a, b, x)
  BY LongerValue
<1>2. /\ ReadFields(c, layout) = FieldFolds!Fold(a, layout)
      /\ ReadFields(d, layout) = FieldFolds!Fold(b, layout)
  BY <1>1, FieldsFold
<1>3. PICK f : FieldFolds!Runs(f, a, layout)
  BY FieldFolds!FoldRuns, Zenon
<1>4. PICK h : FieldFolds!Runs(h, b, layout)
  BY FieldFolds!FoldRuns, Zenon
<1>5. PICK n \in Nat : n = Len(layout) /\ DOMAIN layout = 1..n
  OBVIOUS
<1> DEFINE T == {m \in 0..n : Longer(f[m], h[m], x)}
<1>6. 0 \in T
  BY <1>1, <1>3, <1>4 DEF FieldFolds!Runs
<1>7. ASSUME NEW m \in 0..(n - 1), m \in T PROVE m + 1 \in T
  <2>1. Longer(f[m], h[m], x) /\ m + 1 \in 0..n /\ m + 1 \in 1..n /\ m \in 0..(Len(layout) - 1)
    BY <1>5, <1>7
  <2>2. PICK t \in Types : t = layout[m + 1]
    BY <1>5, <2>1
  <2>3. f[m + 1] = Collect(f[m], ReadField(f[m], t)) /\ h[m + 1] = Collect(h[m], ReadField(h[m], t))
    BY <1>3, <1>4, <2>1, <2>2 DEF FieldFolds!Runs, FieldStep
  <2>4. Longer(ReadField(f[m], t), ReadField(h[m], t), x)
    BY <2>1, LongerField
  <2>5. f[m] = Refused => ReadField(f[m], t) = Refused
    BY RefusedReads
  <2>6. Longer(f[m + 1], h[m + 1], x)
    BY <2>1, <2>3, <2>4, <2>5, LongerCollect
  <2> QED
    BY <2>1, <2>6
<1> HIDE DEF T
<1>8. n \in T
  <2>1. \A m \in 0..n : m \in T
    BY <1>6, <1>7, FieldFolds!Induction
  <2> QED
    BY <2>1
<1>9. Longer(FieldFolds!Fold(a, layout), FieldFolds!Fold(b, layout), x)
  BY <1>3, <1>4, <1>5, <1>8 DEF T, FieldFolds!Runs
<1> QED
  BY <1>2, <1>9

LEMMA LongerNullable ==
  ASSUME NEW x \in Seq(Byte), NEW c, NEW d, Longer(c, d, x), NEW layout \in Seq(Types)
  PROVE  Longer(Nullable(c, layout), Nullable(d, layout), x)
<1>1. PICK t, u : t = Take(c, 1) /\ u = Take(d, 1) /\ Longer(t, u, x)
  BY LongerTake
<1>2. /\ Nullable(c, layout) = IF ~t.ok THEN Refused
                               ELSE IF t.got = <<0>> THEN Read(t, Null) ELSE ReadFields(t, layout)
      /\ Nullable(d, layout) = IF ~u.ok THEN Refused
                               ELSE IF u.got = <<0>> THEN Read(u, Null) ELSE ReadFields(u, layout)
  BY <1>1 DEF Nullable
<1>3. (t = Refused /\ ~t.ok) \/ (t.ok /\ u.ok /\ t.got = u.got)
  BY <1>1, Alike
<1>4. /\ Longer(Read(t, Null), Read(u, Null), x)
      /\ Longer(ReadFields(t, layout), ReadFields(u, layout), x)
  BY <1>1, LongerValue, LongerFields
<1>5. \/ Nullable(c, layout) = Refused
      \/ Nullable(c, layout) = Read(t, Null) /\ Nullable(d, layout) = Read(u, Null)
      \/ Nullable(c, layout) = ReadFields(t, layout) /\ Nullable(d, layout) = ReadFields(u, layout)
  BY <1>2, <1>3
<1> QED
  BY <1>4, <1>5 DEF Longer

(* The types of the records are types of fields. *)
LEMMA PrintedTypes ==
  ASSUME NEW layout \in Seq(Printed)
  PROVE  layout \in Seq(Types)
BY DEF Printed, Types, Widths

LEMMA LongerPlayer ==
  ASSUME NEW x \in Seq(Byte), NEW c, NEW d, Longer(c, d, x)
  PROVE  Longer(Player(c), Player(d), x)
BY PlayerIsRecord, PrintedTypes, LongerNullable

LEMMA LongerBuff ==
  ASSUME NEW x \in Seq(Byte), NEW c, NEW d, Longer(c, d, x)
  PROVE  Longer(Buff(c), Buff(d), x)
BY BuffIsRecord, PrintedTypes, LongerNullable

LEMMA LongerBuffs ==
  ASSUME NEW x \in Seq(Byte), NEW c, NEW d, Longer(c, d, x)
  PROVE  Longer(ReadList(c, Buff), ReadList(d, Buff), x)
<1>1. CASE ~Counts(c)
  <2>1. ReadList(c, Buff) = Refused
    BY <1>1, BuffsUnfold DEF Counts
  <2> QED
    BY <2>1 DEF Longer
<1>2. CASE Counts(c)
  <2>1. PICK n \in Nat : n = Number(Take(c, 4).got) /\ n = Number(Take(d, 4).got) /\ Counts(d)
    BY <1>2, LongerCount
  <2>2. PICK a, b : a = Read(Take(c, 4), <<>>) /\ b = Read(Take(d, 4), <<>>) /\ Longer(a, b, x)
    BY <1>2, LongerCount
  <2>3. PICK s \in Seq(Nat) : s = Upto(n) /\ Len(s) = n
    BY UptoSeq
  <2>4. ReadList(c, Buff) = BuffFolds!Fold(a, s) /\ ReadList(d, Buff) = BuffFolds!Fold(b, s)
    BY <1>2, <2>1, <2>2, <2>3, BuffsUnfold DEF Counts
  <2>5. PICK f : BuffFolds!Runs(f, a, s)
    BY BuffFolds!FoldRuns, Zenon
  <2>6. PICK h : BuffFolds!Runs(h, b, s)
    BY BuffFolds!FoldRuns, Zenon
  <2> DEFINE T == {m \in 0..n : Longer(f[m], h[m], x)}
  <2>7. 0 \in T
    BY <2>2, <2>5, <2>6 DEF BuffFolds!Runs
  <2>8. ASSUME NEW m \in 0..(n - 1), m \in T PROVE m + 1 \in T
    <3>1. Longer(f[m], h[m], x) /\ m + 1 \in 0..n /\ m \in 0..(Len(s) - 1)
      BY <2>3, <2>8
    <3>2. f[m + 1] = Collect(f[m], Buff(f[m])) /\ h[m + 1] = Collect(h[m], Buff(h[m]))
      BY <2>5, <2>6, <3>1 DEF BuffFolds!Runs, BuffStep
    <3>3. Longer(Buff(f[m]), Buff(h[m]), x)
      BY <3>1, LongerBuff
    <3>4. f[m] = Refused => Buff(f[m]) = Refused
      BY BuffIsRecord, RefusedReads
    <3>5. Longer(f[m + 1], h[m + 1], x)
      BY <3>1, <3>2, <3>3, <3>4, LongerCollect
    <3> QED
      BY <3>1, <3>5
  <2> HIDE DEF T
  <2>9. n \in T
    <3>1. \A m \in 0..n : m \in T
      BY <2>7, <2>8, BuffFolds!Induction
    <3> QED
      BY <3>1
  <2>10. Longer(BuffFolds!Fold(a, s), BuffFolds!Fold(b, s), x)
    BY <2>3, <2>5, <2>6, <2>9 DEF T, BuffFolds!Runs
  <2> QED
    BY <2>4, <2>10
<1> QED
  BY <1>1, <1>2

LEMMA LongerCombatant ==
  ASSUME NEW x \in Seq(Byte), NEW c, NEW d, Longer(c, d, x)
  PROVE  Longer(Combatant(c), Combatant(d), x)
<1>1. PICK t, u : t = Take(c, 1) /\ u = Take(d, 1) /\ Longer(t, u, x)
  BY LongerTake
<1>2. PICK a, b : /\ a = ReadFields(t, CombatantLayout) /\ b = ReadFields(u, CombatantLayout)
                  /\ Longer(a, b, x)
  BY <1>1, CombatantIsRecord, PrintedTypes, LongerFields
<1>3. PICK e, f : e = Buffs(a) /\ f = Buffs(b) /\ Longer(e, f, x)
  BY <1>2, LongerBuffs DEF Buffs
<1>4. /\ Combatant(c) = IF ~t.ok THEN Refused ELSE IF t.got = <<0>> THEN Read(t, Null)
                        ELSE IF ~a.ok THEN Refused ELSE Collect(a, e)
      /\ Combatant(d) = IF ~u.ok THEN Refused ELSE IF u.got = <<0>> THEN Read(u, Null)
                        ELSE IF ~b.ok THEN Refused ELSE Collect(b, f)
  BY <1>1, <1>2, <1>3, CombatantUnfolds
<1>5. (t = Refused /\ ~t.ok) \/ (t.ok /\ u.ok /\ t.got = u.got)
  BY <1>1, Alike
<1>6. (a = Refused /\ ~a.ok) \/ (a.ok /\ b.ok)
  BY <1>2, Alike
<1>7. a # Refused => Longer(Collect(a, e), Collect(b, f), x)
  BY <1>2, <1>3, LongerCollect
<1>8. Longer(Read(t, Null), Read(u, Null), x)
  BY <1>1, LongerValue
<1>9. \/ Combatant(c) = Refused
      \/ Combatant(c) = Read(t, Null) /\ Combatant(d) = Read(u, Null)
      \/ a # Refused /\ Combatant(c) = Collect(a, e) /\ Combatant(d) = Collect(b, f)
  <2>1. ~Refused.ok
    BY DEF Refused
  <2> QED
    BY <1>4, <1>5, <1>6, <2>1
<1> QED
  BY <1>7, <1>8, <1>9 DEF Longer

(* Events. *)
LEMMA UiLayouts ==
  ASSUME NEW k \in 0..5
  PROVE  UiEventLayout(k) \in Seq(Types) /\ BridgeEvent(k) = UiEventLayout(k)
<1>1. k = 0 \/ k = 1 \/ k = 2 \/ k = 3 \/ k = 4 \/ k = 5
  OBVIOUS
<1>2. /\ <<"u32">> \in Seq(Types) /\ <<"u32", "flag">> \in Seq(Types)
      /\ <<"u32", "str">> \in Seq(Types) /\ <<"u32", "option">> \in Seq(Types)
      /\ <<"u32", "i64">> \in Seq(Types) /\ <<"option", "str">> \in Seq(Types)
  BY DEF Types, Widths
<1>5. /\ UiEventLayout(0) = <<"u32">> /\ UiEventLayout(1) = <<"u32", "flag">>
      /\ UiEventLayout(2) = <<"u32", "str">> /\ UiEventLayout(3) = <<"u32", "option">>
      /\ UiEventLayout(4) = <<"u32", "i64">> /\ UiEventLayout(5) = <<"option", "str">>
  BY DEF UiEventLayout
<1>3. UiEventLayout(k) \in Seq(Types)
  BY <1>1, <1>2, <1>5
<1>4. BridgeEvent(k) = UiEventLayout(k)
  BY <1>1 DEF BridgeEvent, UiEventLayout
<1> QED
  BY <1>3, <1>4

(* The reader of an event of the tab, behind the tag. *)
TagOk(t) == t.ok /\ t.got \in {<<k>> : k \in 0..5}

LEMMA UiUnfolds ==
  ASSUME NEW c, NEW t, t = Take(c, 1), NEW r, r = ReadFields(t, UiEventLayout(t.got[1]))
  PROVE  /\ UiEventOpenEnded(c) =
              IF TagOk(t) /\ r.ok THEN Read(r, <<t.got>> \o r.got) ELSE Refused
         /\ UiEvent(c) =
              IF TagOk(t) /\ r.ok /\ r.rest = <<>> THEN Read(r, <<t.got>> \o r.got) ELSE Refused
BY DEF UiEventOpenEnded, UiEvent, Then, TagOk

LEMMA LongerUiEvent ==
  ASSUME NEW x \in Seq(Byte), NEW c, NEW d, Longer(c, d, x)
  PROVE  Longer(UiEventOpenEnded(c), UiEventOpenEnded(d), x)
<1>1. PICK t, u : t = Take(c, 1) /\ u = Take(d, 1) /\ Longer(t, u, x)
  BY LongerTake
<1>2. PICK a, b : /\ a = ReadFields(t, UiEventLayout(t.got[1]))
                  /\ b = ReadFields(u, UiEventLayout(u.got[1]))
  OBVIOUS
<1>3. /\ UiEventOpenEnded(c) = IF TagOk(t) /\ a.ok THEN Read(a, <<t.got>> \o a.got) ELSE Refused
      /\ UiEventOpenEnded(d) = IF TagOk(u) /\ b.ok THEN Read(b, <<u.got>> \o b.got) ELSE Refused
  BY <1>1, <1>2, UiUnfolds
<1>4. CASE ~(TagOk(t) /\ a.ok)
  BY <1>3, <1>4 DEF Longer
<1>5. CASE TagOk(t) /\ a.ok
  <2>1. u.ok /\ t.got = u.got
    BY <1>1, <1>5, Alike DEF TagOk
  <2>2. PICK k \in 0..5 : t.got = <<k>>
    BY <1>5 DEF TagOk
  <2>3. t.got[1] = k /\ u.got[1] = k /\ TagOk(u)
    BY <2>1, <2>2 DEF TagOk
  <2>4. UiEventLayout(k) \in Seq(Types)
    BY UiLayouts
  <2>5. Longer(a, b, x)
    BY <1>1, <1>2, <2>3, <2>4, LongerFields
  <2>6. b.ok /\ a.got = b.got
    BY <1>5, <2>5, Alike
  <2>7. PICK v : v = <<t.got>> \o a.got
    OBVIOUS
  <2>8. UiEventOpenEnded(c) = Read(a, v) /\ UiEventOpenEnded(d) = Read(b, v)
    BY <1>3, <1>5, <2>1, <2>3, <2>6, <2>7
  <2> QED
    BY <2>5, <2>8, LongerValue
<1> QED
  BY <1>4, <1>5

LEMMA LongerEvent ==
  ASSUME NEW x \in Seq(Byte), NEW c, NEW d, Longer(c, d, x), NEW code \in EventKind
  PROVE  Longer(EventRead(code, c), EventRead(code, d), x)
<1>1. \/ code = 0 \/ code = 1
      \/ code = 2 \/ code = 3
      \/ code = 4 \/ code = 5 \/ code = 6 \/ code = 7 \/ code = 8 \/ code = 9 \/ code = 10 \/ code = 11
  BY DEF EventKind
<1>2. /\ <<"i64", "str", "bytes">> \in Seq(Types) /\ <<"u32", "str">> \in Seq(Types)
      /\ <<"i32", "u32s">> \in Seq(Types) /\ <<"u32", "u32", "str">> \in Seq(Types)
      /\ <<"u32", "i32", "str">> \in Seq(Types) /\ <<"u32">> \in Seq(Types)
  BY DEF Types, Widths
<1>3. \A layout \in Seq(Types) : Longer(ReadFields(c, layout), ReadFields(d, layout), x)
  BY LongerFields
<1>4. CASE code = 0 \/ code = 1
  <2>1. EventRead(code, c) = NetworkEvent(c) /\ EventRead(code, d) = NetworkEvent(d)
    <3>1. CASE code = 0
      BY <3>1 DEF EventRead
    <3>2. CASE code = 1
      BY <3>2 DEF EventRead
    <3> QED
      BY <1>4, <3>1, <3>2
  <2>2. Longer(NetworkEvent(c), NetworkEvent(d), x)
    BY <1>2, <1>3 DEF NetworkEvent
  <2> QED
    BY <2>1, <2>2
<1>5. CASE code = 2 \/ code = 3
  <2>1. EventRead(code, c) = Combatant(c) /\ EventRead(code, d) = Combatant(d)
    <3>1. CASE code = 2
      BY <3>1 DEF EventRead
    <3>2. CASE code = 3
      BY <3>2 DEF EventRead
    <3> QED
      BY <1>5, <3>1, <3>2
  <2> QED
    BY <2>1, LongerCombatant
<1>6. CASE code = 4
  <2>1. EventRead(code, c) = c /\ EventRead(code, d) = d
    BY <1>6 DEF EventRead
  <2> QED
    BY <2>1
<1>7. CASE code = 5
  <2>1. \A o : EventRead(code, o) = ReadFields(o, <<"u32", "str">>)
    BY <1>7 DEF EventRead
  <2>2. Longer(ReadFields(c, <<"u32", "str">>), ReadFields(d, <<"u32", "str">>), x)
    BY <1>2, <1>3
  <2> QED
    BY <2>1, <2>2
<1>8. CASE code = 6
  <2>1. EventRead(code, c) = Player(c) /\ EventRead(code, d) = Player(d)
    BY <1>8 DEF EventRead
  <2> QED
    BY <2>1, LongerPlayer
<1>9. CASE code = 7
  <2>1. \A o : EventRead(code, o) = ReadFields(o, <<"i32", "u32s">>)
    BY <1>9 DEF EventRead
  <2>2. Longer(ReadFields(c, <<"i32", "u32s">>), ReadFields(d, <<"i32", "u32s">>), x)
    BY <1>2, <1>3
  <2> QED
    BY <2>1, <2>2
<1>10. CASE code = 8
  <2>1. \A o : EventRead(code, o) = ReadFields(o, <<"u32", "u32", "str">>)
    BY <1>10 DEF EventRead
  <2>2. Longer(ReadFields(c, <<"u32", "u32", "str">>), ReadFields(d, <<"u32", "u32", "str">>), x)
    BY <1>2, <1>3
  <2> QED
    BY <2>1, <2>2
<1>11. CASE code = 9
  <2>1. \A o : EventRead(code, o) = ReadFields(o, <<"u32", "i32", "str">>)
    BY <1>11 DEF EventRead
  <2>2. Longer(ReadFields(c, <<"u32", "i32", "str">>), ReadFields(d, <<"u32", "i32", "str">>), x)
    BY <1>2, <1>3
  <2> QED
    BY <2>1, <2>2
<1>12. CASE code = 10
  <2>1. \A o : EventRead(code, o) = ReadFields(o, <<"u32">>)
    BY <1>12 DEF EventRead
  <2>2. Longer(ReadFields(c, <<"u32">>), ReadFields(d, <<"u32">>), x)
    BY <1>2, <1>3
  <2> QED
    BY <2>1, <2>2
<1>13. CASE code = 11
  <2>1. EventRead(code, c) = UiEventOpenEnded(c) /\ EventRead(code, d) = UiEventOpenEnded(d)
    BY <1>13 DEF EventRead
  <2> QED
    BY <2>1, LongerUiEvent
<1> QED
  BY <1>1, <1>4, <1>5, <1>6, <1>7, <1>8, <1>9, <1>10, <1>11, <1>12, <1>13

(* What a reader can return. *)
Stands(c) == c = Refused \/ \E r, g : r \in Seq(Byte) /\ c = At(r, g)

LEMMA StandsLonger ==
  /\ <<>> \in Seq(Byte)
  /\ \A c : Stands(c) => Longer(c, c, <<>>)
  /\ \A c, d, x : Longer(c, d, x) => Stands(c)
<1>1. <<>> \in Seq(Byte)
  OBVIOUS
<1>2. ASSUME NEW c, Stands(c) PROVE Longer(c, c, <<>>)
  <2>1. CASE c = Refused
    BY <2>1 DEF Longer
  <2>2. CASE c # Refused
    <3>1. PICK r, g : r \in Seq(Byte) /\ c = At(r, g)
      BY <1>2, <2>2 DEF Stands
    <3>2. Joins(r, r, <<>>)
      BY <3>1, Alone
    <3> QED
      BY <3>1, <3>2 DEF Longer
  <2> QED
    BY <2>1, <2>2
<1>3. ASSUME NEW c, NEW d, NEW x, Longer(c, d, x) PROVE Stands(c)
  BY <1>3 DEF Longer, Stands
<1> QED
  BY <1>1, <1>2, <1>3

(* Event::decode takes an event of the tab only if nothing is left. *)
LEMMA UiVerdict ==
  ASSUME NEW p \in Seq(Byte), NEW o, o = EventRead(11, Cursor(p))
  PROVE  Decode(11, p) = IF o.ok /\ o.rest = <<>> THEN Result(o) ELSE Result(Refused)
<1>1. PICK c, t, r : /\ c = Cursor(p) /\ t = Take(c, 1)
                     /\ r = ReadFields(t, UiEventLayout(t.got[1]))
  OBVIOUS
<1>2. /\ o = IF TagOk(t) /\ r.ok THEN Read(r, <<t.got>> \o r.got) ELSE Refused
      /\ UiEvent(c) =
           IF TagOk(t) /\ r.ok /\ r.rest = <<>> THEN Read(r, <<t.got>> \o r.got) ELSE Refused
  <2>1. o = UiEventOpenEnded(c)
    BY <1>1 DEF EventRead
  <2> QED
    BY <1>1, <2>1, UiUnfolds
<1>3. Decode(11, p) = Result(UiEvent(c))
  BY <1>1 DEF Decode, EventKind
<1>4. ~Refused.ok
  BY DEF Refused
<1>5. CASE ~(TagOk(t) /\ r.ok)
  BY <1>2, <1>3, <1>4, <1>5
<1>6. CASE TagOk(t) /\ r.ok
  <2>1. PICK e : e = <<>> /\ e \in Seq(Byte)
    BY StandsLonger
  <2>2. Stands(c)
    <3>1. c = At(p, <<>>)
      BY <1>1, Alone
    <3> QED
      BY <3>1 DEF Stands
  <2>3. Longer(c, c, e)
    BY <2>1, <2>2, StandsLonger
  <2>4. Longer(t, t, e)
    BY <1>1, <2>1, <2>3, LongerTake
  <2>5. PICK k \in 0..5 : t.got = <<k>> /\ t.got[1] = k
    BY <1>6 DEF TagOk
  <2>6. Longer(r, r, e)
    BY <1>1, <2>1, <2>4, <2>5, UiLayouts, LongerFields
  <2>7. PICK y, g : r = At(y, g)
    BY <1>4, <1>6, <2>6 DEF Longer
  <2>9. r.rest = y /\ \A v : Read(r, v) = At(y, v)
    BY <2>7, Standing
  <2>8. r.rest = y /\ \A v : Read(r, v).ok /\ Read(r, v).rest = y
    BY <2>9, Standing
  <2> QED
    BY <1>2, <1>3, <1>6, <2>8
<1> QED
  BY <1>5, <1>6

(* An event cut short is refused. *)
LEMMA CutRefused ==
  ASSUME NEW e \in Events, NEW q \in Seq(Byte), NEW x \in Seq(Byte), x # <<>>,
         Joins(WriteEvent(e), q, x)
  PROVE  ~Decode(e.kind, q).ok
<1>1. PICK p, code : p = WriteEvent(e) /\ code = e.kind /\ code \in EventKind
  BY EventParts
<1>2. Longer(Cursor(q), Cursor(p), x)
  BY <1>1, Alone DEF Longer
<1>3. PICK a, b : /\ a = EventRead(code, Cursor(q)) /\ b = EventRead(code, Cursor(p))
                  /\ Longer(a, b, x)
  <2>1. Longer(EventRead(code, Cursor(q)), EventRead(code, Cursor(p)), x)
    BY <1>1, <1>2, LongerEvent
  <2> QED
    BY <2>1
<1>4. PICK g : b = At(<<>>, g)
  BY <1>1, <1>3, AllArrive DEF Arrives
<1>5. a = Refused
  <2> SUFFICES ASSUME a # Refused PROVE FALSE
    OBVIOUS
  <2>1. PICK y, z, h : y \in Seq(Byte) /\ Joins(z, y, x) /\ a = At(y, h) /\ b = At(z, h)
    BY <1>3 DEF Longer
  <2>2. z = <<>>
    BY <1>4, <2>1, Standing
  <2>3. Len(z) = Len(y) + Len(x)
    BY <2>1, Joined
  <2>4. Len(z) = 0 /\ Len(y) \in Nat /\ Len(x) \in Nat /\ Len(x) # 0
    <3>1. Len(z) = 0
      BY <2>2
    <3>2. Len(y) \in Nat /\ Len(x) \in Nat
      BY <2>1
    <3>3. Len(x) # 0
      OBVIOUS
    <3> QED
      BY <3>1, <3>2, <3>3
  <2>5. PICK i \in Nat, j \in Nat : i = Len(y) /\ j = Len(x) /\ j # 0 /\ 0 = i + j
    BY <2>3, <2>4
  <2> QED
    BY <2>5
<1>6. ~Result(Refused).ok /\ NotNull(Refused) = Refused /\ ~Refused.ok
  BY DEF Result, Refused, NotNull
<1>7. CASE code # 11
  <2>1. code \in EventKind \ {11}
    BY <1>1, <1>7
  <2>2. Decode(code, q) = IF code \in {2, 3, 6} THEN Result(NotNull(a)) ELSE Result(a)
    BY <1>3, <2>1, Verdict
  <2>3. ~Decode(code, q).ok
    BY <1>5, <1>6, <2>2
  <2> QED
    BY <1>1, <2>3
<1>8. CASE code = 11
  <2>1. Refused = EventRead(11, Cursor(q))
    BY <1>3, <1>5, <1>8
  <2>4. PICK o : o = Refused
    OBVIOUS
  <2>2. Decode(11, q) = IF o.ok /\ o.rest = <<>> THEN Result(o) ELSE Result(Refused)
    BY <2>1, <2>4, UiVerdict
  <2>3. ~Decode(11, q).ok
    BY <1>6, <2>4, <2>2
  <2> QED
    BY <1>1, <1>8, <2>3
<1> QED
  BY <1>1, <1>7, <1>8

(* Bytes after the end of an event, not of the tab, change nothing. *)
LEMMA GrownSame ==
  ASSUME NEW e \in Events, e.kind # 11, NEW x \in Seq(Byte), NEW q, Joins(q, WriteEvent(e), x)
  PROVE  Decode(e.kind, q) = Delivered(e)
<1>1. PICK p, code : p = WriteEvent(e) /\ code = e.kind /\ code \in EventKind \ {11}
  BY EventParts
<1>2. p \in Seq(Byte) /\ Decode(code, p) = Delivered(e)
  BY <1>1, AllArrive DEF Arrives
<1>3. Longer(Cursor(p), Cursor(q), x)
  BY <1>1, <1>2, Alone DEF Longer
<1>4. PICK a, b : /\ a = EventRead(code, Cursor(p)) /\ b = EventRead(code, Cursor(q))
                  /\ Longer(a, b, x)
  <2>1. Longer(EventRead(code, Cursor(p)), EventRead(code, Cursor(q)), x)
    BY <1>1, <1>3, LongerEvent
  <2> QED
    BY <2>1
<1>5. PICK g : a = At(<<>>, g)
  BY <1>1, <1>4, AllArrive DEF Arrives
<1>6. PICK z : b = At(z, g)
  <2>1. a # Refused
    BY <1>5 DEF At, Refused
  <2>2. PICK y, z, h : a = At(y, h) /\ b = At(z, h)
    BY <1>4, <2>1 DEF Longer
  <2>3. h = g
    BY <1>5, <2>2, Standing
  <2> QED
    BY <2>2, <2>3
<1>7. Result(a) = Result(b) /\ Result(NotNull(a)) = Result(NotNull(b))
  <2>1. a.ok /\ b.ok /\ a.got = g /\ b.got = g
    BY <1>5, <1>6, Standing
  <2> QED
    BY <2>1 DEF Result, NotNull
<1> QED
  BY <1>1, <1>2, <1>4, <1>7, Verdict


(* What a reader of the tab took is what a writer of what it returned writes. *)
Returns(q, c, t) ==
  \E r, v : /\ r \in Seq(Byte) /\ c = At(r, v)
           /\ PutField(t, v) \in Seq(Byte) /\ Joins(q, PutField(t, v), r)

LEMMA TakeBack ==
  ASSUME NEW q \in Seq(Byte), NEW h, NEW n, Take(At(q, h), n).ok
  PROVE  \E a \in Seq(Byte), e \in Seq(Byte) :
           Len(a) = n /\ n \in Nat /\ Joins(q, a, e) /\ Take(At(q, h), n) = At(e, a)
<1>1. n \in 0..Len(q)
  BY DEF Take, At, Refused
<1>2. PICK a \in Seq(Byte), e \in Seq(Byte) :
        Len(a) = n /\ Joins(q, a, e) /\ \A g : Take(At(q, g), n) = At(e, a)
  BY <1>1, Split
<1>3. n \in Nat
  BY <1>1
<1> QED
  BY <1>2, <1>3

LEMMA Together ==
  ASSUME NEW S, NEW b \in Seq(S), NEW v \in Seq(S), NEW y \in Seq(S),
         NEW q, NEW e, Joins(q, b, e), Joins(e, v, y), NEW p, Joins(p, b, v)
  PROVE  p \in Seq(S) /\ Joins(q, p, y)
<1>1. PICK f : Joins(f, p, y)
  BY DEF Joins
<1>2. PICK t \in Seq(S) : Joins(t, v, y) /\ Joins(f, b, t)
  BY <1>1, Moved
<1>3. t = e
  BY <1>2 DEF Joins
<1>4. f = q
  BY <1>2, <1>3 DEF Joins
<1> QED
  BY <1>1, <1>4, Joined

LEMMA StrBack ==
  ASSUME NEW q \in Seq(Byte), NEW h, Str(At(q, h)).ok
  PROVE  Returns(q, Str(At(q, h)), "str")
<1>1. PICK c, t, d : c = At(q, h) /\ t = Take(c, 4) /\ d = Take(t, Number(t.got))
  OBVIOUS
<1>2. ~Refused.ok
  BY DEF Refused
<1>3. Bytes(c) = IF t.ok THEN d ELSE Refused
  BY <1>1 DEF Bytes, Then
<1>4. Str(c) = IF Bytes(c).ok /\ (\A i \in DOMAIN Bytes(c).got : Bytes(c).got[i] < 128)
               THEN Bytes(c) ELSE Refused
  BY DEF Str, Then
<1>5. t.ok /\ d.ok /\ Str(c) = d
  BY <1>1, <1>2, <1>3, <1>4
<1>6. PICK u \in Seq(Byte), e \in Seq(Byte) : Len(u) = 4 /\ Joins(q, u, e) /\ t = At(e, u)
  <2>1. PICK four \in Nat : four = 4
    OBVIOUS
  <2>2. t = Take(At(q, h), four) /\ Take(At(q, h), four).ok
    BY <1>1, <1>5, <2>1
  <2>3. \E a \in Seq(Byte), e \in Seq(Byte) :
          Len(a) = four /\ four \in Nat /\ Joins(q, a, e) /\ Take(At(q, h), four) = At(e, a)
    BY ONLY q \in Seq(Byte), <2>2, TakeBack
  <2> QED
    BY <2>1, <2>2, <2>3, Zenon
<1>7. PICK n : n = Number(u)
  OBVIOUS
<1>8. d = Take(At(e, u), n)
  <2>1. t.got = u
    BY <1>6, Standing
  <2>2. Number(t.got) = n
    BY <1>7, <2>1, Zenon
  <2> QED
    BY <1>1, <1>6, <2>2, Zenon
<1>9. PICK s \in Seq(Byte), y \in Seq(Byte) : Len(s) = n /\ n \in Nat /\ Joins(e, s, y) /\ d = At(y, s)
  BY <1>5, <1>8, TakeBack
<1>10. U32(n) = u
  <2>1. Number(u) >= 0
    <3>1. n >= 0
      BY <1>9
    <3> QED
      BY <1>7, <3>1
  <2> QED
    BY <1>6, <1>7, <2>1, CountOfNumber
<1>11. PICK p : p = PutField("str", s)
  OBVIOUS
<1>12. Joins(p, u, s)
  <2>1. s # Null
    BY NullApart
  <2>2. PutField("str", s) = Text(s)
    BY DEF PutField
  <2>3. Text(s) = U32(Len(s)) \o s
    BY <2>1 DEF Text
  <2> QED
    BY <1>9, <1>10, <1>11, <2>2, <2>3 DEF Joins
<1>13. p \in Seq(Byte) /\ Joins(q, p, y)
  BY <1>6, <1>9, <1>12, Together
<1> QED
  BY <1>1, <1>5, <1>9, <1>11, <1>13 DEF Returns

LEMMA OptionBack ==
  ASSUME NEW q \in Seq(Byte), NEW h, ReadOption(At(q, h)).ok
  PROVE  Returns(q, ReadOption(At(q, h)), "option")
<1>1. PICK c, t : c = At(q, h) /\ t = Take(c, 1)
  OBVIOUS
<1>2. ~Refused.ok
  BY DEF Refused
<1>3. ReadFlag(c) = IF t.ok /\ t.got \in {<<0>>, <<1>>} THEN t ELSE Refused
  BY <1>1 DEF ReadFlag, Then
<1>4. ReadOption(c) = IF ReadFlag(c).ok
                      THEN IF ReadFlag(c).got = <<1>> THEN Take(ReadFlag(c), 4)
                           ELSE Read(ReadFlag(c), Null)
                      ELSE Refused
  BY DEF ReadOption, Then
<1>5. /\ t.ok /\ t.got \in {<<0>>, <<1>>}
      /\ ReadOption(c) = IF t.got = <<1>> THEN Take(t, 4) ELSE Read(t, Null)
  BY <1>1, <1>2, <1>3, <1>4
<1>6. PICK b \in Seq(Byte), e \in Seq(Byte) : Joins(q, b, e) /\ t = At(e, b)
  <2>1. PICK one \in Nat : one = 1
    OBVIOUS
  <2>2. t = Take(At(q, h), one) /\ Take(At(q, h), one).ok
    BY <1>1, <1>5, <2>1
  <2>3. \E a \in Seq(Byte), e \in Seq(Byte) :
          Len(a) = one /\ one \in Nat /\ Joins(q, a, e) /\ Take(At(q, h), one) = At(e, a)
    BY ONLY q \in Seq(Byte), <2>2, TakeBack
  <2> QED
    BY <2>1, <2>2, <2>3, Zenon
<1>7. t.got = b
  BY <1>6, Standing
<1>8. \A v : PutField("option", v) = PutOption(v)
  BY DEF PutField
<1>9. CASE b = <<1>>
  <2>1. ReadOption(c) = Take(At(e, b), 4)
    BY <1>5, <1>6, <1>7, <1>9
  <2>2. PICK v \in Seq(Byte), y \in Seq(Byte) : Joins(e, v, y) /\ ReadOption(c) = At(y, v)
    BY <1>1, <2>1, TakeBack
  <2>3. PICK p : p = PutField("option", v)
    OBVIOUS
  <2>4. Joins(p, b, v)
    <3>1. v # Null
      BY NullApart
    <3> QED
      BY <1>8, <1>9, <2>3, <3>1 DEF PutOption, Joins
  <2>5. p \in Seq(Byte) /\ Joins(q, p, y)
    BY <1>6, <2>2, <2>4, Together
  <2> QED
    BY <1>1, <2>2, <2>3, <2>5 DEF Returns
<1>10. CASE b # <<1>>
  <2>1. b = <<0>>
    BY <1>5, <1>7, <1>10
  <2>2. ReadOption(c) = At(e, Null)
    BY <1>5, <1>6, <1>7, <1>10, Standing
  <2>3. PutField("option", Null) = b
    BY <1>8, <2>1 DEF PutOption
  <2> QED
    BY <1>1, <1>6, <2>2, <2>3 DEF Returns
<1> QED
  BY <1>9, <1>10

LEMMA FieldBack ==
  ASSUME NEW t \in {"u32", "flag", "str", "option", "i64"},
         NEW q \in Seq(Byte), NEW h, ReadField(At(q, h), t).ok
  PROVE  Returns(q, ReadField(At(q, h), t), t)
<1>1. PICK c : c = At(q, h)
  OBVIOUS
<1>2. ~Refused.ok
  BY DEF Refused
<1>3. CASE t = "u32" \/ t = "i64"
  <2>1. PICK w : w = Width(t)
    OBVIOUS
  <2>2. ReadField(c, t) = Take(c, w) /\ \A v : PutField(t, v) = v
    BY <1>3, <2>1 DEF ReadField, PutField
  <2>3. PICK a \in Seq(Byte), e \in Seq(Byte) : Joins(q, a, e) /\ ReadField(c, t) = At(e, a)
    BY <1>1, <2>2, TakeBack
  <2> QED
    BY <1>1, <2>2, <2>3 DEF Returns
<1>4. CASE t = "flag"
  <2>1. ReadField(c, t) = ReadFlag(c) /\ \A v : PutField(t, v) = v
    BY <1>4 DEF ReadField, PutField
  <2>2. PICK u : u = Take(c, 1)
    OBVIOUS
  <2>3. ReadFlag(c) = IF u.ok /\ u.got \in {<<0>>, <<1>>} THEN u ELSE Refused
    BY <2>2 DEF ReadFlag, Then
  <2>4. u.ok /\ ReadField(c, t) = u
    BY <1>1, <1>2, <2>1, <2>3
  <2>5. PICK a \in Seq(Byte), e \in Seq(Byte) : Joins(q, a, e) /\ u = At(e, a)
    BY <1>1, <2>2, <2>4, TakeBack
  <2> QED
    BY <1>1, <2>1, <2>4, <2>5 DEF Returns
<1>5. CASE t = "str"
  <2>1. ReadField(c, t) = Str(c)
    BY <1>5 DEF ReadField
  <2> QED
    BY <1>1, <1>5, <2>1, StrBack
<1>6. CASE t = "option"
  <2>1. ReadField(c, t) = ReadOption(c)
    BY <1>6 DEF ReadField
  <2> QED
    BY <1>1, <1>6, <2>1, OptionBack
<1> QED
  BY <1>3, <1>4, <1>5, <1>6


LEMMA FirstField ==
  ASSUME NEW c, NEW n, n = <<>>, NEW d, d = Read(c, n), NEW t, NEW l, l = <<t>>
  PROVE  ReadFields(c, l) = Collect(d, ReadField(d, t))
<1>1. Len(l) = 1 /\ l[0 + 1] = t /\ l \in Seq({t}) /\ 0 \in 0..(Len(l) - 1) /\ 0 + 1 = Len(l)
  OBVIOUS
<1>2. ReadFields(c, l) = FieldFolds!Fold(d, l)
  BY FieldsFold
<1>3. PICK f : FieldFolds!Runs(f, d, l)
  BY <1>1, FieldFolds!FoldRuns, Zenon
<1>4. f[0] = d /\ f[0 + 1] = FieldStep(f[0], l[0 + 1]) /\ FieldFolds!Fold(d, l) = f[Len(l)]
  BY <1>1, <1>3 DEF FieldFolds!Runs
<1> QED
  BY <1>1, <1>2, <1>4 DEF FieldStep

LEMMA SecondField ==
  ASSUME NEW c, NEW n, n = <<>>, NEW d, d = Read(c, n), NEW t, NEW u, NEW l, l = <<t, u>>,
         NEW e, e = Collect(d, ReadField(d, t))
  PROVE  ReadFields(c, l) = Collect(e, ReadField(e, u))
<1>1. /\ Len(l) = 2 /\ l[0 + 1] = t /\ l[1 + 1] = u /\ l \in Seq({t, u})
      /\ 0 \in 0..(Len(l) - 1) /\ 1 \in 0..(Len(l) - 1) /\ 1 + 1 = Len(l) /\ 0 + 1 = 1
  OBVIOUS
<1>2. ReadFields(c, l) = FieldFolds!Fold(d, l)
  BY FieldsFold
<1>3. PICK g : FieldFolds!Runs(g, d, l)
  BY <1>1, FieldFolds!FoldRuns, Zenon
<1>4. /\ g[0] = d /\ g[0 + 1] = FieldStep(g[0], l[0 + 1]) /\ g[1 + 1] = FieldStep(g[1], l[1 + 1])
      /\ FieldFolds!Fold(d, l) = g[Len(l)]
  BY <1>1, <1>3 DEF FieldFolds!Runs
<1>5. g[1] = e
  BY <1>1, <1>4 DEF FieldStep
<1> QED
  BY <1>1, <1>2, <1>4, <1>5 DEF FieldStep

TabTypes == {"u32", "flag", "str", "option", "i64"}

(* The field that comes next, and the cursor behind it. *)
LEMMA NextBack ==
  ASSUME NEW t \in TabTypes, NEW q \in Seq(Byte), NEW h,
         NEW c, c = Collect(At(q, h), ReadField(At(q, h), t)), c.ok
  PROVE  \E r, v : /\ r \in Seq(Byte) /\ c = At(r, Append(h, v))
                  /\ PutField(t, v) \in Seq(Byte) /\ Joins(q, PutField(t, v), r)
<1>1. PICK d : d = ReadField(At(q, h), t)
  OBVIOUS
<1>2. c = Read(d, Append(h, d.got))
  BY <1>1, Standing DEF Collect
<1>3. d.ok
  BY <1>2 DEF Read, Refused
<1>4. PICK r, v : /\ r \in Seq(Byte) /\ d = At(r, v)
                  /\ PutField(t, v) \in Seq(Byte) /\ Joins(q, PutField(t, v), r)
  BY <1>1, <1>3, FieldBack DEF Returns, TabTypes
<1>5. c = At(r, Append(h, v))
  <2>1. d.got = v
    BY <1>4, Standing
  <2> QED
    BY <1>2, <1>4, <2>1, Standing
<1> QED
  BY <1>4, <1>5

(* A record of the tab has one field or two. *)
Recorded(q, c, layout, g) ==
  \E r \in Seq(Byte) :
    c = At(r, g) /\ PutFields(layout, g) \in Seq(Byte) /\ Joins(q, PutFields(layout, g), r)

LEMMA OneBack ==
  ASSUME NEW t \in TabTypes, NEW q \in Seq(Byte), NEW h,
         NEW c, c = ReadFields(At(q, h), <<t>>), c.ok
  PROVE  \E v : Recorded(q, c, <<t>>, <<v>>)
<1>1. PICK n : n = <<>>
  OBVIOUS
<1>2. PICK a, d, l : a = At(q, h) /\ d = At(q, n) /\ d = Read(a, n) /\ l = <<t>>
  BY Standing
<1>3. c = Collect(At(q, n), ReadField(At(q, n), t))
  <2>1. ReadFields(a, l) = Collect(d, ReadField(d, t))
    BY <1>1, <1>2, FirstField
  <2> QED
    BY <1>2, <2>1
<1>4. PICK r, v : /\ r \in Seq(Byte) /\ c = At(r, Append(n, v))
                  /\ PutField(t, v) \in Seq(Byte) /\ Joins(q, PutField(t, v), r)
  BY <1>3, NextBack
<1>5. Append(n, v) = <<v>>
  BY <1>1
<1>6. PutFields(<<t>>, <<v>>) = PutField(t, v)
  <2>1. PICK b \in Seq(Byte) : b = PutField(t, v)
    BY <1>4
  <2>2. [i \in DOMAIN <<t>> |-> PutField(<<t>>[i], <<v>>[i])] = <<b>>
    BY <2>1
  <2> QED
    BY <2>1, <2>2, FlattenOne DEF PutFields
<1> QED
  BY <1>4, <1>5, <1>6 DEF Recorded

LEMMA TwoBack ==
  ASSUME NEW t \in TabTypes, NEW u \in TabTypes, NEW q \in Seq(Byte), NEW h,
         NEW c, c = ReadFields(At(q, h), <<t, u>>), c.ok
  PROVE  \E v, w : Recorded(q, c, <<t, u>>, <<v, w>>)
<1>1. PICK n : n = <<>>
  OBVIOUS
<1>2. PICK a0, o, l : a0 = At(q, h) /\ o = At(q, n) /\ o = Read(a0, n) /\ l = <<t, u>>
  BY Standing
<1>3. PICK d : d = Collect(At(q, n), ReadField(At(q, n), t)) /\ d = Collect(o, ReadField(o, t))
  BY <1>2
<1>4. c = Collect(d, ReadField(d, u))
  <2>1. ReadFields(a0, l) = Collect(d, ReadField(d, u))
    BY <1>1, <1>2, <1>3, SecondField
  <2> QED
    BY <1>2, <2>1
<1>5. d.ok
  <2> SUFFICES ASSUME ~d.ok PROVE FALSE
    OBVIOUS
  <2>1. d = Refused
    BY <1>3 DEF Collect, Read, At
  <2>2. ReadField(d, u) = Refused
    BY <2>1, RefusedReads DEF TabTypes, Types, Widths
  <2> QED
    BY <1>4, <2>2 DEF Collect, Read, Refused
<1>6. PICK y, v : /\ y \in Seq(Byte) /\ d = At(y, Append(n, v))
                  /\ PutField(t, v) \in Seq(Byte) /\ Joins(q, PutField(t, v), y)
  BY <1>3, <1>5, NextBack
<1>7. PICK k : k = Append(n, v)
  OBVIOUS
<1>8. PICK r, w : /\ r \in Seq(Byte) /\ c = At(r, Append(k, w))
                  /\ PutField(u, w) \in Seq(Byte) /\ Joins(y, PutField(u, w), r)
  BY <1>4, <1>6, <1>7, NextBack
<1>9. Append(k, w) = <<v, w>>
  <2>1. k = <<v>>
    BY <1>1, <1>7
  <2>2. PICK S : S = {v, w}
    OBVIOUS
  <2>3. PICK x : x = Append(k, w)
    OBVIOUS
  <2>4. x \in Seq(S) /\ Len(x) = 2 /\ x[1] = v /\ x[2] = w
    BY <2>1, <2>2, <2>3
  <2>5. PICK z : z = <<v, w>>
    OBVIOUS
  <2>6. z \in Seq(S) /\ Len(z) = 2 /\ z[1] = v /\ z[2] = w
    BY <2>2, <2>5
  <2>7. \A i \in 1..Len(x) : x[i] = z[i]
    BY <2>4, <2>6
  <2>8. x = z
    BY <2>4, <2>6, <2>7, SeqEqual
  <2> QED
    BY <2>3, <2>5, <2>8
<1>10. PICK a \in Seq(Byte), b \in Seq(Byte) : a = PutField(t, v) /\ b = PutField(u, w)
  BY <1>6, <1>8
<1>11. PICK p : p = PutFields(<<t, u>>, <<v, w>>)
  OBVIOUS
<1>12. Joins(p, a, b)
  <2>1. [i \in DOMAIN <<t, u>> |-> PutField(<<t, u>>[i], <<v, w>>[i])] = <<a, b>>
    BY <1>10
  <2>2. p = FlattenSeq(<<a, b>>)
    BY <1>11, <2>1 DEF PutFields
  <2> QED
    BY <2>2, FlattenTwo DEF Joins
<1>13. p \in Seq(Byte) /\ Joins(q, p, r)
  BY <1>6, <1>8, <1>10, <1>12, Together
<1> QED
  BY <1>8, <1>9, <1>11, <1>13 DEF Recorded

(* A value that a tag can stand in front of. *)
Fronted(g) == \A tag : Tail(<<tag>> \o g) = g /\ (<<tag>> \o g)[1] = tag

LEMMA FewFronted ==
  ASSUME NEW v, NEW w
  PROVE  Fronted(<<v>>) /\ Fronted(<<v, w>>)
<1> SUFFICES ASSUME NEW tag
             PROVE  /\ Tail(<<tag>> \o <<v>>) = <<v>> /\ (<<tag>> \o <<v>>)[1] = tag
                    /\ Tail(<<tag>> \o <<v, w>>) = <<v, w>> /\ (<<tag>> \o <<v, w>>)[1] = tag
  BY DEF Fronted
<1>1. PICK S, p, q : S = {tag, v, w} /\ p = <<tag, v>> /\ q = <<tag, v, w>>
  OBVIOUS
<1>2. tag \in S /\ v \in S /\ w \in S
  BY <1>1
<1>3. p = <<tag>> \o Tail(p) /\ Tail(p) = <<v>> /\ p[1] = tag
  BY <1>1, <1>2, Tails, Heads
<1>4. q = <<tag>> \o Tail(q) /\ Tail(q) = <<v, w>> /\ q[1] = tag
  BY <1>1, <1>2, Tails, Heads
<1> QED
  BY <1>3, <1>4, Zenon

LEMMA LayoutBack ==
  ASSUME NEW k \in 0..5, NEW q \in Seq(Byte), NEW h,
         NEW c, c = ReadFields(At(q, h), UiEventLayout(k)), c.ok
  PROVE  \E g : Recorded(q, c, UiEventLayout(k), g) /\ Fronted(g)
<1>1. /\ UiEventLayout(0) = <<"u32">> /\ UiEventLayout(1) = <<"u32", "flag">>
      /\ UiEventLayout(2) = <<"u32", "str">> /\ UiEventLayout(3) = <<"u32", "option">>
      /\ UiEventLayout(4) = <<"u32", "i64">> /\ UiEventLayout(5) = <<"option", "str">>
  BY DEF UiEventLayout
<1>3. CASE k = 0
  <2>1. PICK v : Recorded(q, c, <<"u32">>, <<v>>)
    BY <1>1, <1>3, OneBack DEF TabTypes
  <2> QED
    BY <1>1, <1>3, <2>1, FewFronted
<1>4. CASE k # 0
  <2>1. PICK t \in TabTypes, u \in TabTypes : UiEventLayout(k) = <<t, u>>
    <3>1. k = 1 \/ k = 2 \/ k = 3 \/ k = 4 \/ k = 5
      BY <1>4
    <3> QED
      BY <1>1, <3>1 DEF TabTypes
  <2>2. c = ReadFields(At(q, h), <<t, u>>)
    BY <2>1
  <2>3. PICK v, w : Recorded(q, c, <<t, u>>, <<v, w>>)
    BY <2>2, TwoBack
  <2> QED
    BY <2>1, <2>3, FewFronted
<1> QED
  BY <1>3, <1>4

(* What Event::decode makes of the bytes of an event of the tab, the shim writes as those *)
(* bytes.                                                                                 *)
LEMMA UiBack ==
  ASSUME NEW p \in Seq(Byte), Decode(11, p).ok
  PROVE  WriteEvent([kind |-> 11, value |-> Decode(11, p).value]) = p
<1>1. PICK c, t, r : /\ c = Cursor(p) /\ t = Take(c, 1)
                     /\ r = ReadFields(t, UiEventLayout(t.got[1]))
  OBVIOUS
<1>2. UiEvent(c) = IF TagOk(t) /\ r.ok /\ r.rest = <<>>
                  THEN Read(r, <<t.got>> \o r.got) ELSE Refused
  BY <1>1, UiUnfolds
<1>3. Decode(11, p) = Result(UiEvent(c))
  BY <1>1 DEF Decode, EventKind
<1>4. TagOk(t) /\ r.ok /\ r.rest = <<>>
  <2>1. ~Result(Refused).ok
    BY DEF Result, Refused
  <2> QED
    BY <1>2, <1>3, <2>1
<1>5. PICK v : v = <<t.got>> \o r.got /\ Decode(11, p).value = v
  <2>1. PICK v : v = <<t.got>> \o r.got
    OBVIOUS
  <2>2. UiEvent(c) = Read(r, v)
    BY <1>2, <1>4, <2>1
  <2>3. Result(Read(r, v)).value = v
    BY <1>4 DEF Result, Read
  <2> QED
    BY <1>3, <2>1, <2>2, <2>3
<1>6. PICK a \in Seq(Byte), e \in Seq(Byte) : Joins(p, a, e) /\ t = At(e, a)
  <2>1. PICK one \in Nat : one = 1
    OBVIOUS
  <2>2. PICK n : n = <<>>
    OBVIOUS
  <2>3. t = Take(At(p, n), one) /\ Take(At(p, n), one).ok
    <3>1. Cursor(p) = At(p, n)
      BY <2>2, Alone
    <3> QED
      BY <1>1, <1>4, <2>1, <3>1 DEF TagOk
  <2>4. \E a \in Seq(Byte), e \in Seq(Byte) :
          Len(a) = one /\ one \in Nat /\ Joins(p, a, e) /\ Take(At(p, n), one) = At(e, a)
    BY ONLY p \in Seq(Byte), <2>3, TakeBack
  <2> QED
    BY <2>3, <2>4, Zenon
<1>7. PICK k \in 0..5 : a = <<k>> /\ a[1] = k /\ t.got = a /\ t.got[1] = k
  <2>1. t.got = a
    BY <1>6, Standing
  <2>2. PICK k \in 0..5 : t.got = <<k>>
    BY <1>4 DEF TagOk
  <2>3. <<k>>[1] = k
    OBVIOUS
  <2> QED
    BY <2>1, <2>2, <2>3, Zenon
<1>8. r = ReadFields(At(e, a), UiEventLayout(k)) /\ r.ok
  BY <1>1, <1>4, <1>6, <1>7
<1>9. PICK g : Recorded(e, r, UiEventLayout(k), g) /\ Fronted(g)
  BY <1>8, LayoutBack
<1>10. PICK y, w : /\ w = PutFields(UiEventLayout(k), g) /\ w \in Seq(Byte)
                   /\ r = At(y, g) /\ Joins(e, w, y)
  BY <1>9 DEF Recorded
<1>11. y = <<>> /\ r.got = g
  BY <1>4, <1>10, Standing
<1>12. v[1] = a /\ Tail(v) = g
  BY <1>5, <1>7, <1>9, <1>11 DEF Fronted
<1>13. PICK f : f.kind = 11 /\ f.value = v /\ f = [kind |-> 11, value |-> v]
  OBVIOUS
<1>14. WriteEvent(f) = a \o w
  <2>1. WriteEvent(f) = f.value[1] \o PutFields(BridgeEvent(f.value[1][1]), Tail(f.value))
    <3>1. f.kind \notin {2, 3} /\ f.kind # 6 /\ f.kind = 11
      BY <1>13
    <3> QED
      BY <3>1, Zenon DEF WriteEvent
  <2>2. BridgeEvent(k) = UiEventLayout(k)
    BY UiLayouts
  <2> QED
    BY <1>7, <1>10, <1>12, <1>13, <2>1, <2>2
<1>15. a \o w = p
  <2>1. e = w
    <3>1. e = w \o <<>>
      BY <1>10, <1>11 DEF Joins
    <3>2. w \in Seq(Byte)
      BY <1>10
    <3> QED
      BY <3>1, <3>2
  <2> QED
    BY <1>6, <2>1 DEF Joins
<1> QED
  BY <1>5, <1>13, <1>14, <1>15

-------------------------------------------------------------------------------
(* Events.  What crosses is the event that was sent, or its bytes as one     *)
(* step of damage leaves them.                                              *)
Damaged ==
  /\ damage = "cut" =>
       kind = sent.kind /\ \E x \in Seq(Byte) : x # <<>> /\ Joins(WriteEvent(sent), wire, x)
  /\ damage = "grown" =>
       kind = sent.kind /\ \E x \in Seq(Byte) : Joins(wire, WriteEvent(sent), x)
  /\ damage = "changed" => kind = 11
  /\ damage = "kind" => kind = 12

EventInv ==
  /\ pc = "idle" => damage = "none"
  /\ pc \in {"event", "received"} =>
       /\ sent \in Events /\ wire \in Seq(Byte)
       /\ damage = "none" => kind = sent.kind /\ wire = WriteEvent(sent)
       /\ Damaged
  /\ pc = "received" => outcome = Checked(Decode(kind, wire), "DecodeError")

LEMMA DamageNext ==
  ASSUME Inv, EventInv, Damage
  PROVE  EventInv'
<1>1. /\ pc = "event" /\ pc' = "event" /\ damage = "none" /\ sent' = sent
      /\ sent \in Events /\ wire \in Seq(Byte) /\ kind = sent.kind /\ wire = WriteEvent(sent)
  BY DEF Damage, EventInv
<1>2. CASE damage' = "cut" /\ kind' = kind /\ \E n \in 0..(Len(wire) - 1) : wire' = SubSeq(wire, 1, n)
  <2>1. PICK n \in 0..(Len(wire) - 1) : wire' = SubSeq(wire, 1, n)
    BY <1>2
  <2>2. PICK k \in Nat : k = Len(wire) /\ n \in 0..k /\ n \in Nat /\ n # k
    BY <1>1, <2>1
  <2>3. PICK a \in Seq(Byte), e \in Seq(Byte) :
          a = SubSeq(wire, 1, n) /\ Len(a) = n /\ Joins(wire, a, e)
    BY <1>1, <2>2, Split
  <2>4. e # <<>>
    <3>1. k = n + Len(e)
      BY <2>2, <2>3, Joined
    <3>2. e = <<>> => Len(e) = 0
      OBVIOUS
    <3> QED
      BY <2>2, <3>1, <3>2
  <2>5. wire' = a
    BY <2>1, <2>3
  <2> QED
    BY <1>1, <1>2, <2>3, <2>4, <2>5 DEF EventInv, Damaged
<1>3. CASE damage' = "grown" /\ kind' = kind /\ wire' = Append(wire, 0)
  <2>1. PICK x \in Seq(Byte) : x = <<0>>
    <3>1. <<0>> \in Seq(Byte)
      BY DEF Byte
    <3> QED
      BY <3>1
  <2>2. wire' \in Seq(Byte) /\ Joins(wire', wire, x)
    <3>1. Append(wire, 0) = wire \o <<0>> /\ 0 \in Byte
      BY <1>1 DEF Byte
    <3>2. Append(wire, 0) \in Seq(Byte)
      BY <1>1, <3>1
    <3> QED
      BY <1>3, <2>1, <3>1, <3>2 DEF Joins
  <2> QED
    BY <1>1, <1>3, <2>2 DEF EventInv, Damaged
<1>4. CASE damage' = "changed" /\ kind' = 11 /\ \E i \in DOMAIN wire : wire' = [wire EXCEPT ![i] = 2]
  <2>1. wire' \in Seq(Byte)
    <3>1. PICK i \in DOMAIN wire : wire' = [wire EXCEPT ![i] = 2]
      BY <1>4
    <3>2. 2 \in Byte
      BY DEF Byte
    <3> QED
      BY <1>1, <3>1, <3>2
  <2> QED
    BY <1>1, <1>4, <2>1 DEF EventInv, Damaged
<1>5. CASE damage' = "kind" /\ kind' = 12 /\ wire' = wire
  BY <1>1, <1>5 DEF EventInv, Damaged
<1> QED
  BY <1>2, <1>3, <1>4, <1>5 DEF Damage

LEMMA EventNext ==
  ASSUME Inv, EventInv, [Next]_vars
  PROVE  EventInv'
<1>1. CASE EmitEvent
  <2>1. /\ pc' = "event" /\ damage' = "none" /\ sent' \in Events /\ kind' = sent'.kind
        /\ wire' = WriteEvent(sent')
    BY <1>1 DEF EmitEvent, EventInv
  <2>2. wire' \in Seq(Byte)
    BY <2>1, EventsRead
  <2> QED
    BY <2>1, <2>2 DEF EventInv, Damaged
<1>2. CASE Damage
  BY <1>2, DamageNext
<1>3. CASE ReceiveEvent
  BY <1>3 DEF ReceiveEvent, EventInv, Damaged, call
<1>4. CASE Ask \/ Return
  BY <1>4 DEF Ask, Return, EventInv
<1>5. CASE Begin \/ SizingCall \/ BufferedCall
  <2>1. pc' \notin {"idle", "event", "received"}
    BY <1>5 DEF Begin, SizingCall, BufferedCall
  <2> QED
    BY <2>1 DEF EventInv
<1>6. CASE RepositoryChanges \/ TabToggles \/ UNCHANGED vars
  BY <1>6 DEF RepositoryChanges, TabToggles, vars, call, host, EventInv, Damaged
<1> QED
  BY <1>1, <1>2, <1>3, <1>4, <1>5, <1>6 DEF Next, Step

LEMMA EventInvHolds == Spec => []EventInv
<1>1. Init => EventInv
  BY DEF Init, EventInv
<1>2. Inv /\ EventInv /\ [Next]_vars => EventInv'
  BY EventNext
<1> QED
  BY <1>1, <1>2, InvHolds, PTL DEF Spec

(* What the plugin gets of a verdict. *)
LEMMA VerdictKept ==
  ASSUME NEW e, NEW r, r = Delivered(e), NEW o, o = Checked(r, "DecodeError")
  PROVE  o.ok = Delivered(e).ok /\ (o.ok => o = Delivered(e))
<1>1. \/ Delivered(e) = [ok |-> FALSE]
      \/ \E v : Delivered(e) = [ok |-> TRUE, value |-> v]
  BY DEF Delivered
<1>2. CASE Delivered(e) = [ok |-> FALSE]
  BY <1>2 DEF Checked, Fail
<1>3. CASE \E v : Delivered(e) = [ok |-> TRUE, value |-> v]
  BY <1>3 DEF Checked
<1> QED
  BY <1>1, <1>2, <1>3

(* For every event, with whatever numbers, texts and payloads: Event::decode *)
(* hands the plugin what the shim sent, and refuses nothing but a null       *)
(* record (Shim.cs Send, api.rs Event::decode).                             *)
THEOREM EventsIntact == Spec => []EventIntact
<1>1. EventInv => EventIntact
  <2> SUFFICES ASSUME EventInv, pc = "received", damage = "none"
               PROVE  /\ wire \in Seq(Byte)
                      /\ outcome.ok = Delivered(sent).ok
                      /\ outcome.ok => outcome = Delivered(sent)
    BY DEF EventIntact
  <2>1. /\ sent \in Events /\ kind = sent.kind /\ wire = WriteEvent(sent) /\ wire \in Seq(Byte)
        /\ outcome = Checked(Decode(kind, wire), "DecodeError")
    BY DEF EventInv
  <2>2. Decode(kind, wire) = Delivered(sent)
    BY <2>1, EventsRead
  <2> QED
    BY <2>1, <2>2, VerdictKept
<1> QED
  BY <1>1, EventInvHolds, PTL

LEMMA DecodeVerdict ==
  ASSUME NEW k, NEW p
  PROVE  Decode(k, p).ok \in BOOLEAN
<1>1. \A c : Result(c).ok \in BOOLEAN
  BY DEF Result
<1>2. CASE k \in EventKind \ {11}
  BY <1>1, <1>2, Verdict
<1>3. CASE k = 11
  <2>1. Decode(11, p) = Result(UiEvent(Cursor(p)))
    BY DEF Decode, EventKind
  <2> QED
    BY <1>1, <1>3, <2>1
<1>4. CASE k \notin EventKind
  <2>1. Decode(k, p) = Result(Refused)
    BY <1>4 DEF Decode, EventKind
  <2> QED
    BY <1>1, <2>1
<1> QED
  BY <1>2, <1>3, <1>4

(* For every event and every damage to its bytes that the model has: one cut *)
(* short anywhere, or of an unknown kind, is refused (api.rs Cursor::take,  *)
(* abi.rs EventKind); an event of the tab is taken only when the shim would *)
(* write the bytes that came for what was read of them (api.rs:511); bytes  *)
(* after the end of any other event are not looked at.                      *)
THEOREM DamageFound == Spec => []DamageDetected
<1>1. Inv /\ EventInv => DamageDetected
  <2> SUFFICES ASSUME Inv, EventInv, pc = "received", damage # "none"
               PROVE  /\ damage \in {"cut", "kind"} => ~outcome.ok
                      /\ kind = 11 /\ outcome.ok =>
                           WriteEvent([kind |-> 11, value |-> outcome.value]) = wire
                      /\ kind # 11 /\ damage = "grown" => outcome.ok = Delivered(sent).ok
                      /\ kind # 11 /\ damage = "grown" /\ outcome.ok => outcome = Delivered(sent)
    BY DEF DamageDetected
  <2>1. PICK r : r = Decode(kind, wire) /\ outcome = Checked(r, "DecodeError")
    BY DEF EventInv
  <2>2. sent \in Events /\ wire \in Seq(Byte) /\ Damaged
    BY DEF EventInv
  <2>3. outcome.ok = r.ok /\ (r.ok => outcome = r)
    <3>1. r.ok \in BOOLEAN
      BY <2>1, DecodeVerdict
    <3> QED
      BY <2>1, <3>1 DEF Checked, Fail
  <2>4. ASSUME damage = "cut" PROVE ~outcome.ok
    <3>1. PICK x \in Seq(Byte) : x # <<>> /\ Joins(WriteEvent(sent), wire, x)
      BY <2>2, <2>4 DEF Damaged
    <3>2. ~Decode(sent.kind, wire).ok
      BY <2>2, <3>1, CutRefused
    <3> QED
      BY <2>1, <2>2, <2>3, <2>4, <3>2 DEF Damaged
  <2>5. ASSUME damage = "kind" PROVE ~outcome.ok
    <3>1. kind = 12
      BY <2>2, <2>5 DEF Damaged
    <3>2. Decode(12, wire) = [ok |-> FALSE]
      BY DEF Decode, EventKind, Result, Refused
    <3> QED
      BY <2>1, <2>3, <3>1, <3>2
  <2>6. ASSUME kind = 11, outcome.ok
        PROVE  WriteEvent([kind |-> 11, value |-> outcome.value]) = wire
    <3>1. Decode(11, wire).ok /\ outcome = Decode(11, wire)
      BY <2>1, <2>3, <2>6
    <3> QED
      BY <2>2, <3>1, UiBack
  <2>7. ASSUME kind # 11, damage = "grown"
        PROVE  outcome.ok = Delivered(sent).ok /\ (outcome.ok => outcome = Delivered(sent))
    <3>1. PICK x \in Seq(Byte) : kind = sent.kind /\ Joins(wire, WriteEvent(sent), x)
      BY <2>2, <2>7 DEF Damaged
    <3>2. r = Delivered(sent)
      BY <2>1, <2>2, <2>7, <3>1, GrownSame
    <3> QED
      BY <2>1, <3>2, VerdictKept
  <2> QED
    BY <2>4, <2>5, <2>6, <2>7
<1> QED
  BY <1>1, InvHolds, EventInvHolds, PTL

-------------------------------------------------------------------------------
(* Commands.                                                                *)
LEMMA CommandsOnce ==
  ASSUME Inv, SizingCall, kind = UiQuery
  PROVE  /\ kind' = UiQuery /\ sent' = sent /\ pc' = "done"
         /\ \/ /\ accepting /\ attached /\ Acceptable(sent) /\ CommandValid(sent)
               /\ queued' = <<sent>>
               /\ outcome' = [ok |-> TRUE] \/ outcome' = Fail("PluginError")
            \/ /\ ~(accepting /\ Acceptable(sent))
               /\ queued' = <<>> /\ outcome' = Fail("PluginError")
<1>1. PICK reply \in Replies(0) :
        /\ queued' = queued \o reply.commands
        /\ \/ /\ reply.status = "Ok" /\ reply.size = 0
              /\ pc' = "done" /\ outcome' = Finish(<<>>) /\ UNCHANGED required
           \/ /\ reply.status = "BufferTooSmall" \/ (reply.status = "Ok" /\ reply.size # 0)
              /\ pc' = "retry" /\ required' = reply.size /\ UNCHANGED outcome
           \/ /\ reply.status \notin {"Ok", "BufferTooSmall"}
              /\ pc' = "done" /\ outcome' = Fail(reply.status) /\ UNCHANGED required
  BY DEF SizingCall
<1>2. /\ pc = "sizing" /\ attached /\ queued = <<>>
      /\ Encode(sent).ok /\ wire = Encode(sent).value /\ sent \in UiCommands
      /\ UNCHANGED <<kind, sent>>
  BY DEF SizingCall, Inv, CallInv, call, Query, UiQuery, DataQueries, UnknownQuery
<1>3. Acceptable(sent) <=> ~(Len(wire) > MaxPayload) /\ CommandDecode(wire).ok
  BY <1>2 DEF Acceptable
<1>4. Acceptable(sent) => CommandDecode(wire).value = sent /\ CommandValid(sent)
  <2>1. \A c \in UiCommands : Acceptable(c) =>
          CommandDecode(Encode(c).value) = [ok |-> TRUE, value |-> c] /\ CommandValid(c)
    BY CodecRoundTrip, Zenon DEF RoundTrip
  <2>2. Acceptable(sent) => CommandDecode(wire) = [ok |-> TRUE, value |-> sent] /\ CommandValid(sent)
    BY <1>2, <2>1
  <2> QED
    BY <2>2
<1>5. CASE reply = Rejection /\ ~(accepting /\ ~(Len(wire) > MaxPayload) /\ CommandDecode(wire).ok)
  BY <1>1, <1>2, <1>3, <1>5 DEF Rejection, Reply
<1>6. CASE /\ accepting /\ ~(Len(wire) > MaxPayload) /\ CommandDecode(wire).ok
           /\ reply.commands = <<CommandDecode(wire).value>>
           /\ \/ reply.status = "Ok" /\ reply.size = 0
              \/ reply.status = "PluginError"
  <2>1. Acceptable(sent) /\ reply.commands = <<sent>> /\ CommandValid(sent)
    BY <1>3, <1>4, <1>6
  <2>2. queued' = <<sent>>
    BY <1>1, <1>2, <2>1
  <2>3. pc' = "done" /\ (outcome' = Finish(<<>>) \/ outcome' = Fail("PluginError"))
    BY <1>1, <1>6
  <2>4. Finish(<<>>) = [ok |-> TRUE]
    BY DEF Finish
  <2> QED
    BY <1>2, <1>6, <2>1, <2>2, <2>3, <2>4
<1> QED
  BY <1>5, <1>6, CommandReplies

LEMMA UiOnceNext ==
  ASSUME Inv, UiOnce, [Next]_vars
  PROVE  UiOnce'
<1>1. CASE EmitEvent \/ Damage
  BY <1>1 DEF EmitEvent, Damage, UiOnce, UiQuery, Events, EventKind, Inv, CallInv
<1>2. CASE ReceiveEvent
  BY <1>2 DEF ReceiveEvent, UiOnce, Inv, CallInv, call
<1>3. CASE Ask
  BY <1>3 DEF Ask, UiOnce, Inv, CallInv
<1>4. CASE Begin
  <2>1. queued' = <<>>
    BY <1>4 DEF Begin, Inv, CallInv
  <2>2. pc' = "done" => ~outcome'.ok
    BY <1>4 DEF Begin, Fail
  <2> QED
    BY <2>1, <2>2 DEF UiOnce
<1>5. CASE SizingCall
  <2>1. CASE kind = UiQuery
    BY <1>5, <2>1, CommandsOnce DEF UiOnce, Fail
  <2>2. CASE kind # UiQuery
    BY <1>5, <2>2 DEF SizingCall, UiOnce, call
  <2> QED
    BY <2>1, <2>2
<1>6. CASE BufferedCall
  BY <1>6 DEF BufferedCall, UiOnce, call, Inv, TypeOK, DataQueries, UnknownQuery, UiQuery
<1>7. CASE Return
  BY <1>7 DEF Return, UiOnce, UiQuery
<1>8. CASE RepositoryChanges \/ TabToggles \/ UNCHANGED vars
  BY <1>8 DEF RepositoryChanges, TabToggles, vars, UiOnce, call
<1> QED
  BY <1>1, <1>2, <1>3, <1>4, <1>5, <1>6, <1>7, <1>8 DEF Next, Step

(* For every command, every limit and every moment at which the tab closes,  *)
(* Repository::ui puts its command into UiBridge's queue exactly once or     *)
(* fails.                                                                   *)
THEOREM CommandsQueuedOnce == Spec => []UiOnce
<1>1. Init => UiOnce
  BY DEF Init, UiOnce, UiQuery
<1>2. Inv /\ UiOnce /\ [Next]_vars => UiOnce'
  BY UiOnceNext
<1> QED
  BY <1>1, <1>2, InvHolds, PTL DEF Spec

-------------------------------------------------------------------------------
(* Queries.  A step that ends a query either fails for a reason or returns   *)
(* what the repository holds at that step.                                  *)
LEMMA FinishWhole ==
  ASSUME kind \in DataQueries, sdk \in Sdk(kind), sdk # Unavailable
  PROVE  /\ Finish(WriteAnswer(kind, sdk)) = Checked(Answered(kind, sdk), "Malformed")
         /\ Len(WriteAnswer(kind, sdk)) = 0 => WriteAnswer(kind, sdk) = <<>>
<1>1. kind # UiQuery
  BY DEF DataQueries, UnknownQuery, UiQuery
<1>2. \A q \in DataQueries : \A v \in Sdk(q) \ {Unavailable} :
        Helper(q, WriteAnswer(q, v)) = Answered(q, v)
  BY CodecRoundTrip, Zenon DEF RoundTrip
<1>3. Helper(kind, WriteAnswer(kind, sdk)) = Answered(kind, sdk)
  BY <1>2
<1>4. WriteAnswer(kind, sdk) \in Seq(Byte)
  BY AnswersAreBytes
<1> QED
  BY <1>1, <1>3, <1>4 DEF Finish

LEMMA QueryEnds ==
  ASSUME Inv, SizingCall \/ BufferedCall, kind \in DataQueries
  PROVE  /\ attached
         /\ queued' = <<>> /\ queued = <<>>
         /\ UNCHANGED <<kind, sent, damage, attached, accepting, sdk, changes>>
         /\ \/ pc' = "retry" /\ UNCHANGED outcome
            \/ /\ pc' = "done" /\ sdk = Unavailable /\ outcome' = Fail("PluginError")
            \/ /\ pc' = "done" /\ sdk # Unavailable
               /\ outcome' = Checked(Answered(kind, sdk), "Malformed")
            \/ /\ pc' = "done" /\ changes # 0 /\ outcome' = Fail("BufferTooSmall")
<1>1. /\ kind # UiQuery /\ sdk \in Sdk(kind) /\ attached /\ queued = <<>>
      /\ pc \in {"sizing", "retry"}
      /\ UNCHANGED <<kind, sent, damage, attached, accepting, sdk, changes>>
  BY DEF SizingCall, BufferedCall, Inv, CallInv, SizeInv, Query, call, host, UiQuery,
     DataQueries, UnknownQuery
<1>2. CASE SizingCall
  <2>1. PICK reply \in Replies(0) :
          /\ queued' = queued \o reply.commands
          /\ \/ /\ reply.status = "Ok" /\ reply.size = 0
                /\ pc' = "done" /\ outcome' = Finish(<<>>) /\ UNCHANGED required
             \/ /\ reply.status = "BufferTooSmall" \/ (reply.status = "Ok" /\ reply.size # 0)
                /\ pc' = "retry" /\ required' = reply.size /\ UNCHANGED outcome
             \/ /\ reply.status \notin {"Ok", "BufferTooSmall"}
                /\ pc' = "done" /\ outcome' = Fail(reply.status) /\ UNCHANGED required
    BY <1>2 DEF SizingCall
  <2>2. /\ reply.commands = <<>>
        /\ \/ sdk = Unavailable /\ reply.status = "PluginError"
           \/ /\ sdk # Unavailable
              /\ reply.size = Len(WriteAnswer(kind, sdk)) /\ reply.size \in Nat
              /\ \/ reply.status = "Ok" /\ reply.size <= 0
                 \/ reply.status = "BufferTooSmall" /\ 0 < reply.size
    BY <1>1, DataReplies
  <2>3. queued' = <<>>
    BY <1>1, <2>1, <2>2
  <2>4. CASE sdk = Unavailable
    BY <1>1, <2>1, <2>2, <2>3, <2>4
  <2>5. CASE sdk # Unavailable /\ reply.status = "Ok"
    <3>1. reply.size = 0 /\ Finish(<<>>) = Checked(Answered(kind, sdk), "Malformed")
      BY <1>1, <2>2, <2>5, FinishWhole
    <3> QED
      BY <1>1, <2>1, <2>3, <2>5, <3>1
  <2>6. CASE reply.status = "BufferTooSmall"
    BY <1>1, <2>1, <2>3, <2>6
  <2> QED
    BY <2>2, <2>4, <2>5, <2>6
<1>3. CASE BufferedCall
  <2>1. PICK reply \in Replies(required) :
          /\ queued' = queued \o reply.commands
          /\ \/ /\ reply.status = "Ok"
                /\ pc' = "done"
                /\ outcome' = IF reply.size > required THEN Fail("Malformed")
                              ELSE Finish(reply.bytes)
             \/ /\ reply.status = "BufferTooSmall"
                /\ \/ UNCHANGED <<pc, outcome>>
                   \/ pc' = "done" /\ outcome' = Fail(reply.status)
             \/ /\ reply.status \notin {"Ok", "BufferTooSmall"}
                /\ pc' = "done" /\ outcome' = Fail(reply.status)
    BY <1>3 DEF BufferedCall
  <2>2. pc = "retry" /\ required \in Nat /\ tries \in Nat /\ changes \in Nat /\ tries <= changes
    BY <1>3 DEF BufferedCall, Inv, SizeInv, TypeOK
  <2>3. /\ reply.commands = <<>>
        /\ \/ sdk = Unavailable /\ reply.status = "PluginError"
           \/ /\ sdk # Unavailable
              /\ reply.size = Len(WriteAnswer(kind, sdk)) /\ reply.size \in Nat
              /\ \/ reply.status = "Ok" /\ reply.size <= required
                    /\ reply.bytes = WriteAnswer(kind, sdk)
                 \/ reply.status = "BufferTooSmall" /\ required < reply.size
    BY <1>1, <2>2, DataReplies
  <2>4. queued' = <<>>
    BY <1>1, <2>1, <2>3
  <2>5. CASE sdk = Unavailable
    BY <1>1, <2>1, <2>3, <2>4, <2>5
  <2>6. CASE sdk # Unavailable /\ reply.status = "Ok"
    <3>1. outcome' = Finish(WriteAnswer(kind, sdk)) /\ pc' = "done"
      BY <2>1, <2>2, <2>3, <2>6
    <3> QED
      BY <1>1, <2>4, <2>6, <3>1, FinishWhole
  <2>7. CASE sdk # Unavailable /\ reply.status = "BufferTooSmall"
    <3>1. tries < changes
      BY <2>2, <2>3, <2>7 DEF Inv, SizeInv
    <3> QED
      BY <1>1, <2>1, <2>2, <2>4, <2>7, <3>1
  <2> QED
    BY <2>3, <2>5, <2>6, <2>7
<1> QED
  BY <1>2, <1>3

LEMMA WholeNext ==
  ASSUME Inv, WholeAnswer, [Next]_vars
  PROVE  WholeAnswer'
<1>1. CASE (SizingCall \/ BufferedCall) /\ kind \in DataQueries
  <2>1. CASE outcome' = Checked(Answered(kind, sdk), "Malformed") /\ sdk # Unavailable
    <3>1. UNCHANGED <<kind, sdk>>
      BY <1>1, QueryEnds
    <3> QED
      BY <2>1, <3>1 DEF WholeAnswer, Checked, Fail
  <2>2. CASE outcome' = Fail("PluginError") \/ outcome' = Fail("BufferTooSmall")
    BY <2>2 DEF WholeAnswer, Fail
  <2>3. CASE pc' = "retry"
    BY <2>3 DEF WholeAnswer, Queried
  <2> QED
    BY <1>1, <2>1, <2>2, <2>3, QueryEnds
<1>2. CASE (SizingCall \/ BufferedCall) /\ kind \notin DataQueries
  BY <1>2 DEF SizingCall, BufferedCall, call, WholeAnswer, Queried
<1>3. CASE EmitEvent \/ Damage \/ ReceiveEvent \/ Ask \/ Return
  BY <1>3 DEF EmitEvent, Damage, ReceiveEvent, Ask, Return, WholeAnswer, Queried
<1>4. CASE Begin
  BY <1>4 DEF Begin, WholeAnswer, Queried, Fail
<1>5. CASE RepositoryChanges \/ TabToggles \/ UNCHANGED vars
  BY <1>5 DEF RepositoryChanges, TabToggles, vars, call, host, WholeAnswer, Queried
<1> QED
  BY <1>1, <1>2, <1>3, <1>4, <1>5 DEF Next, Step

(* For every repository, however often it changes during the call, a typed   *)
(* helper of Repository returns one of its answers, whole, and the latest.  *)
THEOREM AnswersWhole == Spec => []WholeAnswer
<1>1. Init => WholeAnswer
  BY DEF Init, WholeAnswer, Queried
<1>2. Inv /\ WholeAnswer /\ [Next]_vars => WholeAnswer'
  BY WholeNext
<1> QED
  BY <1>1, <1>2, InvHolds, PTL DEF Spec

-------------------------------------------------------------------------------
(* The refinement of AtomicQuery.                                           *)
IdleInv ==
  /\ pc \in {"idle", "event", "received"} => sdk = <<>>
  /\ pc = "idle" => kind = 0 /\ sent = <<>>
  /\ pc \in Query \cup {"idle"} => outcome = Pending

LEMMA IdleNext ==
  ASSUME Inv, IdleInv, [Next]_vars
  PROVE  IdleInv'
<1>1. CASE EmitEvent \/ Damage \/ ReceiveEvent
  BY <1>1 DEF EmitEvent, Damage, ReceiveEvent, IdleInv, Query
<1>2. CASE Ask \/ Return
  BY <1>2 DEF Ask, Return, IdleInv, Query
<1>3. CASE Begin
  BY <1>3 DEF Begin, IdleInv, Query
<1>4. CASE SizingCall
  BY <1>4 DEF SizingCall, IdleInv, Query, call
<1>5. CASE BufferedCall
  BY <1>5 DEF BufferedCall, IdleInv, Query, call
<1>6. CASE RepositoryChanges \/ TabToggles \/ UNCHANGED vars
  BY <1>6 DEF RepositoryChanges, TabToggles, vars, call, host, IdleInv, Query
<1> QED
  BY <1>1, <1>2, <1>3, <1>4, <1>5, <1>6 DEF Next, Step

LEMMA AtomicInit == Init => Atomic!Init
BY DEF Init, Atomic!Init, Atomic!Failure, Phase, Asked, Issued, Steady, Got, Eventful,
       Pending, Fail

(* What the mapping is before and after a step, by pc.                      *)
LEMMA Mapping ==
  /\ pc \in {"idle", "event", "received"} => Phase = "idle"
  /\ pc \in Query => Phase = "asked"
  /\ pc = "done" => Phase = "answered"
  /\ pc \in {"event", "received"} => Asked = 0 /\ Issued = <<>> /\ Got = Atomic!Failure
  /\ pc \notin {"event", "received"} => Asked = kind /\ Issued = sent
  /\ pc \notin {"event", "received"} => Got = IF outcome.ok THEN outcome ELSE Atomic!Failure
BY DEF Phase, Asked, Issued, Got, Eventful, Query, Atomic!Failure

LEMMA MappingNext ==
  /\ pc' \in {"idle", "event", "received"} => Phase' = "idle"
  /\ pc' \in Query => Phase' = "asked"
  /\ pc' = "done" => Phase' = "answered"
  /\ pc' \in {"event", "received"} => Asked' = 0 /\ Issued' = <<>> /\ Got' = Atomic!Failure
  /\ pc' \notin {"event", "received"} => Asked' = kind' /\ Issued' = sent'
  /\ pc' \notin {"event", "received"} => Got' = IF outcome'.ok THEN outcome' ELSE Atomic!Failure
BY DEF Phase, Asked, Issued, Got, Eventful, Query, Atomic!Failure

LEMMA StutterEvents ==
  ASSUME Inv, IdleInv, EmitEvent \/ Damage \/ ReceiveEvent
  PROVE  UNCHANGED Atomic!vars
<1>1. /\ pc \in {"idle", "event"} /\ pc' \in {"event", "received"}
      /\ UNCHANGED <<attached, accepting, sdk, changes, queued>>
  BY DEF EmitEvent, Damage, ReceiveEvent, host
<1>2. Asked = 0 /\ Issued = <<>> /\ Got = Atomic!Failure /\ Phase = "idle"
  BY <1>1, Mapping DEF IdleInv, Pending, Fail
<1>3. Asked' = 0 /\ Issued' = <<>> /\ Got' = Atomic!Failure /\ Phase' = "idle"
  BY <1>1, MappingNext
<1> QED
  BY <1>1, <1>2, <1>3 DEF Atomic!vars, Steady

LEMMA StepAsk ==
  ASSUME Inv, IdleInv, Ask
  PROVE  Atomic!Ask
<1>1. /\ pc = "idle" /\ pc' = "asking"
      /\ \/ kind' \in DataQueries /\ sdk' \in Sdk(kind') /\ sent' = <<>>
         \/ kind' = UiQuery /\ sdk' = <<>> /\ sent' \in UiCommands
      /\ UNCHANGED <<attached, accepting, changes, queued, outcome>>
  BY DEF Ask, host
<1>2. changes = 0 /\ queued = <<>> /\ outcome = Pending
  BY <1>1 DEF Inv, CallInv, IdleInv
<1>3. Phase = "idle" /\ Phase' = "asked" /\ Asked' = kind' /\ Issued' = sent'
  BY <1>1, Mapping, MappingNext DEF Query
<1>4. Got' = Atomic!Failure
  BY <1>1, <1>2, MappingNext DEF Pending, Fail
<1>5. UiQuery \notin DataQueries
  BY DEF UiQuery, DataQueries, UnknownQuery
<1> QED
  BY <1>1, <1>2, <1>3, <1>4, <1>5 DEF Atomic!Ask, Steady

(* A query that ends: with an answer, or with a failure that has a reason.   *)
LEMMA StepAnswer ==
  ASSUME Inv, IdleInv, pc \in Query, pc' = "done", kind \in DataQueries,
         UNCHANGED <<kind, sent, attached, accepting, sdk, changes, queued>>,
         \/ ~attached /\ ~outcome'.ok
         \/ attached /\ sdk = Unavailable /\ ~outcome'.ok
         \/ /\ attached /\ sdk # Unavailable
            /\ outcome' = Checked(Answered(kind, sdk), "Malformed")
         \/ attached /\ changes # 0 /\ ~outcome'.ok
  PROVE  Atomic!Answer
<1>1. /\ Phase = "asked" /\ Phase' = "answered" /\ Asked = kind /\ Asked' = kind
      /\ Issued = sent /\ Issued' = sent
      /\ Got' = IF outcome'.ok THEN outcome' ELSE Atomic!Failure
  BY Mapping, MappingNext DEF Query
<1>2. UNCHANGED Steady
  BY DEF Steady
<1>3. \/ attached /\ Reading(kind, sdk).ok /\ Got' = Reading(kind, sdk)
      \/ (attached => ~Reading(kind, sdk).ok \/ changes # 0) /\ Got' = Atomic!Failure
  BY <1>1 DEF Reading, Checked, Fail
<1> QED
  BY <1>1, <1>2, <1>3 DEF Atomic!Answer, Steady

LEMMA StepBegin ==
  ASSUME Inv, IdleInv, Begin
  PROVE  Atomic!Answer \/ Atomic!Queue \/ UNCHANGED Atomic!vars
<1>1. PICK request \in {Request} :
        \/ request.ok /\ attached /\ pc' = "sizing" /\ UNCHANGED outcome
        \/ request.ok /\ ~attached /\ pc' = "done" /\ outcome' = Fail("NotInitialized")
        \/ ~request.ok /\ pc' = "done" /\ outcome' = Fail("InvalidUi")
  BY DEF Begin
<1>2. /\ pc = "asking" /\ queued = <<>>
      /\ UNCHANGED <<kind, sent, attached, accepting, sdk, changes, queued>>
  BY DEF Begin, host, Inv, CallInv
<1>3. CASE pc' = "sizing"
  <2>1. UNCHANGED outcome
    BY <1>1, <1>3
  <2>2. UNCHANGED <<Phase, Asked, Issued, Got>>
    BY <1>2, <1>3, <2>1, Mapping, MappingNext DEF Query
  <2> QED
    BY <1>2, <2>2 DEF Atomic!vars, Steady
<1>4. CASE pc' # "sizing" /\ kind \in DataQueries
  <2>1. request.ok
    BY <1>4 DEF Request, DataQueries, UnknownQuery, UiQuery
  <2>2. ~attached /\ pc' = "done" /\ ~outcome'.ok
    BY <1>1, <1>4, <2>1 DEF Fail
  <2> QED
    BY <1>2, <1>4, <2>2, StepAnswer DEF Query
<1>5. CASE pc' # "sizing" /\ kind \notin DataQueries
  <2>1. kind = UiQuery
    BY <1>2, <1>5 DEF Inv, CallInv, Query
  <2>2. request = Encode(sent)
    BY <2>1 DEF Request, UiQuery
  <2>3. pc' = "done" /\ ~outcome'.ok /\ ~(attached /\ accepting /\ Acceptable(sent))
    BY <1>1, <1>5, <2>2 DEF Fail, Acceptable
  <2>4. /\ Phase = "asked" /\ Phase' = "answered" /\ Asked = kind /\ Asked' = kind
        /\ Issued = sent /\ Issued' = sent /\ Got' = Atomic!Failure
    BY <1>2, <2>3, Mapping, MappingNext DEF Query
  <2> QED
    BY <1>2, <1>5, <2>3, <2>4 DEF Atomic!Queue, Steady
<1> QED
  BY <1>3, <1>4, <1>5

LEMMA StepCall ==
  ASSUME Inv, IdleInv, SizingCall \/ BufferedCall
  PROVE  Atomic!Answer \/ Atomic!Queue \/ UNCHANGED Atomic!vars
<1>1. pc \in Query
  BY DEF SizingCall, BufferedCall, Query
<1>2. CASE kind \in DataQueries /\ pc' = "retry" /\ UNCHANGED outcome
  <2>1. UNCHANGED <<kind, sent, attached, accepting, sdk, changes, queued>>
    BY <1>2, QueryEnds
  <2>2. UNCHANGED <<Phase, Asked, Issued, Got>>
    BY <1>1, <1>2, <2>1, Mapping, MappingNext DEF Query
  <2> QED
    BY <2>1, <2>2 DEF Atomic!vars, Steady
<1>3. CASE kind \in DataQueries /\ pc' # "retry"
  <2>1. /\ pc' = "done"
        /\ attached
        /\ UNCHANGED <<kind, sent, attached, accepting, sdk, changes, queued>>
        /\ \/ sdk = Unavailable /\ ~outcome'.ok
           \/ sdk # Unavailable /\ outcome' = Checked(Answered(kind, sdk), "Malformed")
           \/ changes # 0 /\ ~outcome'.ok
    BY <1>3, QueryEnds DEF Fail
  <2> QED
    BY <1>1, <1>3, <2>1, StepAnswer
<1>4. CASE kind \notin DataQueries
  <2>1. kind = UiQuery /\ SizingCall /\ queued = <<>>
    <3>1. BufferedCall => pc = "retry"
      BY DEF BufferedCall
    <3>2. pc # "retry"
      BY <1>4 DEF Inv, TypeOK
    <3>3. kind = UiQuery /\ queued = <<>>
      BY <1>1, <1>4 DEF Inv, CallInv, Query
    <3> QED
      BY <3>1, <3>2, <3>3
  <2>2. UNCHANGED <<kind, sent, attached, accepting, sdk, changes>>
    BY <2>1 DEF SizingCall, call, host
  <2>3. /\ pc' = "done"
        /\ \/ /\ accepting /\ attached /\ Acceptable(sent)
              /\ queued' = <<sent>>
              /\ outcome' = [ok |-> TRUE] \/ outcome' = Fail("PluginError")
           \/ /\ ~(accepting /\ Acceptable(sent))
              /\ queued' = <<>> /\ outcome' = Fail("PluginError")
    BY <2>1, CommandsOnce
  <2>4. /\ Phase = "asked" /\ Phase' = "answered" /\ Asked = kind /\ Asked' = kind
        /\ Issued = sent /\ Issued' = sent
        /\ Got' = IF outcome'.ok THEN outcome' ELSE Atomic!Failure
    BY <1>1, <2>2, <2>3, Mapping, MappingNext DEF Query
  <2>5. /\ outcome' = Fail("PluginError") => Got' = Atomic!Failure
        /\ outcome' = [ok |-> TRUE] => Got' = Atomic!Accepted
    <3>1. ASSUME outcome' = Fail("PluginError") PROVE Got' = Atomic!Failure
      <4>1. ~outcome'.ok
        BY <3>1 DEF Fail
      <4> QED
        BY <2>4, <4>1
    <3>2. ASSUME outcome' = [ok |-> TRUE] PROVE Got' = Atomic!Accepted
      <4>1. outcome'.ok
        BY <3>2
      <4> QED
        BY <2>4, <3>2, <4>1 DEF Atomic!Accepted
    <3> QED
      BY <3>1, <3>2
  <2> QED
    BY <1>4, <2>2, <2>3, <2>4, <2>5 DEF Atomic!Queue, Steady
<1>5. kind \in DataQueries => pc' # "retry" \/ UNCHANGED outcome
  BY QueryEnds DEF Fail
<1> QED
  BY <1>2, <1>3, <1>4, <1>5

LEMMA StepReturn ==
  ASSUME Inv, IdleInv, Return
  PROVE  Atomic!Return \/ UNCHANGED Atomic!vars
<1>1. /\ pc \in {"received", "done"} /\ pc' = "idle" /\ kind' = 0 /\ sent' = <<>>
      /\ sdk' = <<>> /\ changes' = 0 /\ queued' = <<>> /\ ~outcome'.ok
      /\ UNCHANGED <<attached, accepting>>
  BY DEF Return, host, Pending, Fail
<1>2. /\ Phase' = "idle" /\ Asked' = 0 /\ Issued' = <<>> /\ Got' = Atomic!Failure /\ Steady'
  BY <1>1, MappingNext DEF Steady
<1>3. CASE pc = "done"
  <2>1. Phase = "answered"
    BY <1>3, Mapping
  <2> QED
    BY <1>1, <1>2, <2>1 DEF Atomic!Return, Steady
<1>4. CASE pc = "received"
  <2>1. /\ Phase = "idle" /\ Asked = 0 /\ Issued = <<>> /\ Got = Atomic!Failure
    BY <1>4, Mapping
  <2>2. changes = 0 /\ queued = <<>> /\ sdk = <<>>
    BY <1>4 DEF Inv, CallInv, IdleInv
  <2> QED
    BY <1>1, <1>2, <1>4, <2>1, <2>2 DEF Atomic!vars, Steady
<1> QED
  BY <1>1, <1>3, <1>4

LEMMA StepOthers ==
  ASSUME Inv, IdleInv, RepositoryChanges \/ TabToggles \/ UNCHANGED vars
  PROVE  Atomic!Next \/ UNCHANGED Atomic!vars
<1>1. UNCHANGED <<Phase, Asked, Issued, Got>>
  BY DEF RepositoryChanges, TabToggles, vars, call, Phase, Asked, Issued, Got, Eventful
<1>2. CASE RepositoryChanges
  <2>1. /\ pc \in Query /\ kind \in DataQueries /\ sdk' \in Sdk(kind) /\ changes' # 0
        /\ UNCHANGED <<attached, accepting, queued>>
    BY <1>2 DEF RepositoryChanges, host, Query, Inv, TypeOK
  <2>2. Phase = "asked" /\ Asked = kind
    BY <2>1, Mapping DEF Query
  <2> QED
    BY <1>1, <2>1, <2>2 DEF Atomic!Next, Atomic!Change, Steady
<1>3. CASE TabToggles
  BY <1>1, <1>3 DEF TabToggles, Atomic!Next, Atomic!Toggle, Steady
<1>4. CASE UNCHANGED vars
  BY <1>1, <1>4 DEF vars, Atomic!vars, Steady
<1> QED
  BY <1>2, <1>3, <1>4

(* Sizing calls, buffers and retries are invisible to a plugin, for every   *)
(* repository and every tab: each call of the host has the effect of one    *)
(* step of AtomicQuery.                                                     *)
THEOREM RefinesAtomicQuery == Spec => Implements
<1>1. Init => IdleInv
  BY DEF Init, IdleInv, Query
<1>2. Inv /\ IdleInv /\ [Next]_vars => IdleInv'
  BY IdleNext
<1>3. Inv /\ IdleInv /\ [Next]_vars => [Atomic!Next]_(Atomic!vars)
  <2> SUFFICES ASSUME Inv, IdleInv, [Next]_vars PROVE Atomic!Next \/ UNCHANGED Atomic!vars
    OBVIOUS
  <2>1. CASE EmitEvent \/ Damage \/ ReceiveEvent
    BY <2>1, StutterEvents
  <2>2. CASE Ask
    BY <2>2, StepAsk DEF Atomic!Next
  <2>3. CASE Begin
    BY <2>3, StepBegin DEF Atomic!Next
  <2>4. CASE SizingCall \/ BufferedCall
    BY <2>4, StepCall DEF Atomic!Next
  <2>5. CASE Return
    BY <2>5, StepReturn DEF Atomic!Next
  <2>6. CASE RepositoryChanges \/ TabToggles \/ UNCHANGED vars
    BY <2>6, StepOthers
  <2> QED
    BY <2>1, <2>2, <2>3, <2>4, <2>5, <2>6 DEF Next, Step
<1> QED
  BY <1>1, <1>2, <1>3, AtomicInit, InvHolds, PTL DEF Spec, Implements, Atomic!Spec
===============================================================================
