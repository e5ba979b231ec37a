----------------------------- MODULE LogdProofs -----------------------------
(***************************************************************************)
(* Proofs about Logd, for any entries, sizes, lives and capacities, and    *)
(* for a decoder that accepts a Forward as well as for the one of the code.*)
(***************************************************************************)
EXTENDS Logd, SequenceTheorems, TLAPS

\* What is in write_log.
InHand ==
  /\ stage # "idle" => registered /\ entry = taken /\ entry \in Entries
  /\ stage = "idle" => entry = 0
  /\ waiting => ~registered

Forwards(s) == {k \in 1..Len(s) : s[k].type = "Forward"}
Waits(s) == \A k \in Forwards(s) : s[k].entry \in taken + 1..sent
Ordered(s) == \A k, l \in Forwards(s) : k < l => s[k].entry < s[l].entry
Holds(s, n) == \E k \in Forwards(s) : s[k].entry = n

\* The messages between the Bridge and main are those that were forwarded and
\* not taken, in their order.
Queue ==
  /\ taken <= sent
  /\ Waits(chan) /\ Waits(sock)
  /\ Ordered(chan) /\ Ordered(sock)
  /\ \A k \in Forwards(chan), l \in Forwards(sock) : chan[k].entry < sock[l].entry
  /\ Forwards(chan) # {} => "Forward" \in Decoded
  /\ "Forward" \in Decoded => \A n \in taken + 1..sent : Holds(chan, n) \/ Holds(sock, n)

\* Until logd has its acknowledgement, nothing comes before the answer.
AnswerFirst ==
  main = "up" /\ ~registered =>
    \/ chan # <<>> /\ Head(chan).type \in {"Ack", "Reject"}
    \/ chan = <<>> /\ sock # <<>> /\ Head(sock).type \in {"Ack", "Reject"}
    \/ sock = <<>> /\ chan = <<>> /\ peer # "serving"
    \/ sock = <<>> /\ chan = <<Command("Closed")>> /\ reader = "done" /\ peer = "closed"

-----------------------------------------------------------------------------
\* The types, in groups.
Ends == /\ lives \in 0..MaxLives
        /\ peer \in {"none", "registering", "serving", "closed"}
        /\ sent \in 0..MaxEntries
        /\ reader \in {"reading", "done"}
        /\ main \in {"off", "up", "ended", "stopped", "rejected", "crashed"}
        /\ first \in 1..MaxEntries + 1
Queues == sock \in Seq(Frames) /\ chan \in Seq(Frames)
Tasks == /\ waiting \in BOOLEAN
         /\ stage \in {"idle", "evict", "append"}
         /\ entry \in 0..MaxEntries
         /\ registered \in BOOLEAN
         /\ taken \in 0..MaxEntries
Rings == ring \in Seq(Entries) /\ bytes \in Nat
Disk == /\ buffered \in [Files -> Seq(Lines)]
        /\ file \in [Files -> Seq(Lines)]
        /\ dropped \in SUBSET Lines
Drift == adrift \in SUBSET Entries

\* TypeOK is the groups together.
LEMMA Types == TypeOK <=> Ends /\ Queues /\ Tasks /\ Rings /\ Disk /\ Drift
BY DEF TypeOK, Ends, Queues, Tasks, Rings, Disk, Drift

\* A line is an entry or 0.
LEMMA LineTypes == Entries \subseteq Lines /\ 0 \in Lines /\ Lines \subseteq Nat
BY LogdAssumption DEF Lines, Entries

\* Each group is kept by every step.
LEMMA EndsStep == LogdAssumption /\ Ends /\ [Next]_vars => Ends'
<1> SUFFICES ASSUME LogdAssumption, Ends, [Next]_vars PROVE Ends'
  OBVIOUS
<1> USE DEF vars, peerVars, taskVars, ringVars, fileVars, lifeVars
<1>1. CASE Start
  BY <1>1 DEF Start, Ends, LogdAssumption
<1>2. CASE Bridge
  <2>1. CASE Forward
    BY <2>1 DEF Forward, Ends, LogdAssumption
  <2>2. CASE Acknowledge \/ Refuse
    BY <2>2 DEF Acknowledge, Refuse, Ends
  <2>3. CASE AskStop \/ Close
    BY <2>3 DEF AskStop, Close, Ends
  <2>4. QED
    BY <1>2, <2>1, <2>2, <2>3 DEF Bridge
<1>3. CASE Read \/ ReadEof
  BY <1>3 DEF Read, ReadEof, Ends, LogdAssumption
<1>4. CASE Handle
  BY <1>4 DEF Handle, TakeAck, TakeReject, TakeStop, TakeEntry, TakeClosed, ChannelEnded, Exit, Ends
<1>5. CASE RegistrationTimeout \/ FlushTick \/ Crash
  BY <1>5 DEF RegistrationTimeout, FlushTick, Crash, Exit, Ends
<1>6. CASE WriteLog
  BY <1>6 DEF WriteLog, Evict, Push, WriteBuffered, WriteThrough, WriteFails, WriteDone, Ends
<1>7. CASE UNCHANGED vars
  BY <1>7 DEF Ends
<1>9. CASE OthersWrite
  BY <1>9 DEF OthersWrite, Ends
<1>8. QED
  BY <1>1, <1>2, <1>3, <1>4, <1>5, <1>6, <1>7, <1>9 DEF Next

-----------------------------------------------------------------------------
\* What main takes from the channel leaves the socket alone.
Taken == main = "up" /\ stage = "idle" /\ chan # <<>> /\ chan' = Tail(chan) /\ UNCHANGED <<sock, sent>>

\* Which steps touch the messages on their way.
LEMMA QueueFrame ==
  [Next]_vars =>
    \/ Start \/ Acknowledge \/ Refuse \/ Forward \/ AskStop \/ Read \/ ReadEof
    \/ Taken /\ Head(chan).type # "Forward" /\ UNCHANGED taken
    \/ TakeEntry
    \/ UNCHANGED <<sock, chan, taken, sent>>
<1> SUFFICES ASSUME [Next]_vars
             PROVE  \/ Start \/ Acknowledge \/ Refuse \/ Forward \/ AskStop \/ Read \/ ReadEof
                    \/ Taken /\ Head(chan).type # "Forward" /\ UNCHANGED taken
                    \/ TakeEntry
                    \/ UNCHANGED <<sock, chan, taken, sent>>
  OBVIOUS
<1> USE DEF vars, peerVars, taskVars, ringVars, fileVars, lifeVars
<1>1. CASE Bridge
  BY <1>1 DEF Bridge, Close
<1>2. CASE TakeAck \/ TakeReject
  BY <1>2 DEF TakeAck, TakeReject, Take, Taken
<1>3. CASE TakeStop \/ TakeClosed
  BY <1>3 DEF TakeStop, TakeClosed, Take, Taken
<1>4. CASE ChannelEnded \/ RegistrationTimeout \/ FlushTick \/ Crash \/ OthersWrite
  BY <1>4 DEF ChannelEnded, RegistrationTimeout, FlushTick, Crash, OthersWrite
<1>5. CASE WriteLog
  BY <1>5 DEF WriteLog, Evict, Push, WriteBuffered, WriteThrough, WriteFails, WriteDone
<1>6. CASE UNCHANGED vars
  BY <1>6
<1>7. QED
  BY <1>1, <1>2, <1>3, <1>4, <1>5, <1>6 DEF Next, Handle

\* A command is a frame.
LEMMA Commands == \A t \in {"Ack", "Reject", "Stop", "Closed"} : Command(t) \in Frames /\ Command(t).type = t
BY LogdAssumption DEF Command, Frames

\* What the reader does to the channel with a line.
LEMMA Decoding ==
  ASSUME NEW s \in Seq(Frames), NEW f \in Frames
  PROVE  s \o Decode(f) = IF f.type \in Decoded THEN Append(s, f) ELSE s
<1>1. s \o <<>> = s /\ Append(s, f) = s \o <<f>>
  BY ConcatEmptySeq, AppendIsConcat
<1>2. QED
  BY <1>1 DEF Decode

\* The socket and the channel hold frames.
LEMMA QueuesStep == Ends /\ Queues /\ [Next]_vars => Queues'
<1> SUFFICES ASSUME Ends, Queues, [Next]_vars PROVE Queues'
  OBVIOUS
<1> USE DEF Queues
<1>1. CASE Start
  BY <1>1 DEF Start
<1>2. CASE Acknowledge \/ Refuse \/ AskStop
  BY <1>2, Commands DEF Acknowledge, Refuse, AskStop
<1>3. CASE Forward
  <2>1. [type |-> "Forward", entry |-> sent + 1] \in Frames
    BY <1>3, LogdAssumption DEF Forward, Ends, Frames
  <2>2. QED
    BY <1>3, <2>1 DEF Forward
<1>4. CASE Read
  <2>1. Head(sock) \in Frames /\ Tail(sock) \in Seq(Frames)
    BY <1>4, HeadTailProperties DEF Read
  <2>2. chan' = chan \o Decode(Head(sock)) /\ sock' = Tail(sock)
    BY <1>4 DEF Read
  <2>3. chan \o Decode(Head(sock)) \in {chan, Append(chan, Head(sock))}
    BY <2>1, Decoding
  <2>4. Append(chan, Head(sock)) \in Seq(Frames)
    BY <2>1, AppendProperties
  <2>5. QED
    BY <2>1, <2>2, <2>3, <2>4
<1>5. CASE ReadEof
  BY <1>5, Commands DEF ReadEof
<1>6. CASE Taken
  BY <1>6, HeadTailProperties DEF Taken
<1>7. CASE TakeEntry
  BY <1>7, HeadTailProperties DEF TakeEntry, Take
<1>8. CASE UNCHANGED <<sock, chan>>
  BY <1>8
<1>9. QED
  BY <1>1, <1>2, <1>3, <1>4, <1>5, <1>6, <1>7, <1>8, QueueFrame

-----------------------------------------------------------------------------
\* The state of main is well formed.
LEMMA TasksStep == Ends /\ Queues /\ Tasks /\ [Next]_vars => Tasks'
<1> SUFFICES ASSUME Ends, Queues, Tasks, [Next]_vars PROVE Tasks'
  OBVIOUS
<1> USE DEF vars, peerVars, taskVars, ringVars, fileVars, lifeVars
<1>0. MaxEntries \in Nat
  BY LogdAssumption
<1>1. CASE Start
  <2>1. waiting' = TRUE /\ stage' = "idle" /\ entry' = 0 /\ registered' = FALSE /\ taken' = sent
    BY <1>1 DEF Start
  <2>2. sent \in 0..MaxEntries /\ 0 \in 0..MaxEntries
    BY <1>0 DEF Ends
  <2>3. QED
    BY <2>1, <2>2, Zenon DEF Tasks
<1>2. CASE Bridge
  BY <1>2 DEF Bridge, Acknowledge, Refuse, Forward, AskStop, Close, Tasks
<1>3. CASE Read \/ ReadEof
  BY <1>3 DEF Read, ReadEof, Tasks
<1>4. CASE TakeAck \/ TakeReject \/ TakeStop
  BY <1>4 DEF TakeAck, TakeReject, TakeStop, Tasks
<1>5. CASE TakeEntry
  <2>1. Head(chan) \in Frames
    BY <1>5, HeadTailProperties DEF TakeEntry, Take, Queues
  <2>2. QED
    BY <1>5, <2>1 DEF TakeEntry, Frames, Tasks
<1>6. CASE TakeClosed \/ ChannelEnded
  BY <1>6 DEF TakeClosed, ChannelEnded, Tasks
<1>7. CASE RegistrationTimeout
  <2>1. waiting' = FALSE /\ stage' = "idle" /\ entry' = 0 /\ UNCHANGED <<registered, taken>>
    BY <1>7 DEF RegistrationTimeout
  <2>2. 0 \in 0..MaxEntries
    BY <1>0
  <2>3. QED
    BY <2>1, <2>2, Zenon DEF Tasks
<1>11. CASE FlushTick \/ Crash \/ OthersWrite
  BY <1>11 DEF FlushTick, Crash, OthersWrite, Tasks
<1>8. CASE WriteLog
  <2>1. UNCHANGED <<waiting, registered, taken>> /\ entry' \in {entry, 0} /\ stage' \in {stage, "append", "idle"}
    BY <1>8 DEF WriteLog, Evict, Push, WriteBuffered, WriteThrough, WriteFails, WriteDone
  <2>2. QED
    BY <1>0, <2>1 DEF Tasks
<1>9. CASE UNCHANGED vars
  BY <1>9 DEF Tasks
<1>10. QED
  BY <1>1, <1>2, <1>3, <1>4, <1>5, <1>6, <1>7, <1>8, <1>9, <1>11 DEF Next, Handle

-----------------------------------------------------------------------------
\* An entry has a positive size, and the sums of the sizes grow.
LEMMA Sizes ==
  /\ \A n \in Entries : Size(n) \in Nat \ {0} /\ Total[n] \in Nat /\ Total[n - 1] \in Nat
  /\ \A m, n \in 0..MaxEntries : m < n => Total[m] < Total[n]
<1>1. ASSUME NEW n \in Entries PROVE Total[n] \in Nat /\ Total[n - 1] \in Nat /\ Total[n - 1] < Total[n]
  <2>1. n \in 0..MaxEntries /\ n - 1 \in 0..MaxEntries /\ n - 1 < n
    BY LogdAssumption DEF Entries
  <2>2. QED
    BY <2>1, LogdAssumption
<1>2. QED
  BY <1>1, LogdAssumption DEF Size

\* Which steps touch the ring.
LEMMA RingFrame == [Next]_vars => Start \/ Evict \/ Push \/ UNCHANGED <<ring, bytes>>
<1> USE DEF vars, peerVars, taskVars, ringVars, fileVars, lifeVars
<1>1. Bridge \/ Read \/ ReadEof => UNCHANGED <<ring, bytes>>
  BY DEF Bridge, Acknowledge, Refuse, Forward, AskStop, Close, Read, ReadEof
<1>2. Handle => UNCHANGED <<ring, bytes>>
  BY DEF Handle, TakeAck, TakeReject, TakeStop, TakeEntry, TakeClosed, ChannelEnded
<1>3. RegistrationTimeout \/ FlushTick \/ Crash \/ WriteBuffered \/ WriteThrough \/ WriteFails
      => UNCHANGED <<ring, bytes>>
  BY DEF RegistrationTimeout, FlushTick, Crash, WriteBuffered, WriteThrough, WriteFails, WriteDone
<1>5. OthersWrite => UNCHANGED <<ring, bytes>>
  BY DEF OthersWrite
<1>4. QED
  BY <1>1, <1>2, <1>3, <1>5 DEF Next, WriteLog

\* The ring holds entries, and the count is a natural number.
LEMMA RingsStep == InHand /\ Rings /\ [Next]_vars => Rings'
<1> SUFFICES ASSUME InHand, Rings, [Next]_vars PROVE Rings'
  OBVIOUS
<1> USE DEF Rings
<1>1. CASE Start
  BY <1>1 DEF Start
<1>2. CASE Evict
  <2>1. Head(ring) \in Entries /\ Tail(ring) \in Seq(Entries)
    BY <1>2, HeadTailProperties DEF Evict
  <2>2. Size(Head(ring)) \in Nat
    BY <2>1, Sizes
  <2>3. QED
    BY <1>2, <2>1, <2>2 DEF Evict
<1>3. CASE Push
  <2>1. entry \in Entries /\ Size(entry) \in Nat
    BY <1>3, Sizes DEF Push, InHand
  <2>2. QED
    BY <1>3, <2>1 DEF Push
<1>4. QED
  BY <1>1, <1>2, <1>3, RingFrame

\* Which steps touch the files.
LEMMA FileFrame ==
  [Next]_vars =>
    \/ UNCHANGED fileVars
    \/ UNCHANGED <<file, dropped>> /\ buffered' = Empty /\ (Start \/ main' # "up")
    \/ FlushTick \/ TakeStop \/ WriteBuffered \/ WriteThrough \/ WriteFails
    \/ OthersWrite
<1> USE DEF vars, peerVars, taskVars, ringVars, fileVars, lifeVars
<1>1. Bridge \/ Read \/ ReadEof => UNCHANGED fileVars
  BY DEF Bridge, Acknowledge, Refuse, Forward, AskStop, Close, Read, ReadEof
<1>2. TakeAck \/ TakeEntry \/ RegistrationTimeout \/ Evict \/ Push => UNCHANGED fileVars
  BY DEF TakeAck, TakeEntry, RegistrationTimeout, Evict, Push
<1>3. TakeReject \/ TakeClosed \/ ChannelEnded \/ Crash \/ Start
      => \/ UNCHANGED fileVars
         \/ UNCHANGED <<file, dropped>> /\ buffered' = Empty /\ (Start \/ main' # "up")
  BY DEF TakeReject, TakeClosed, ChannelEnded, Crash, Exit, Start
<1>4. QED
  BY <1>1, <1>2, <1>3 DEF Next, Handle, WriteLog

\* What another process of logd does to the file of the log.
LEMMA OthersLine ==
  ASSUME Disk, Drift, OthersWrite
  PROVE  \E n \in adrift \cup {0} :
           /\ n \in Lines /\ file'["persist"] = Append(file["persist"], n) /\ adrift' = adrift \ {n}
           /\ file' = [file EXCEPT !["persist"] = Append(file["persist"], n)]
           /\ UNCHANGED <<buffered, dropped>>
BY LineTypes DEF OthersWrite, Disk, Drift, Files

\* The files and their buffers hold lines.
LEMMA DiskStep == InHand /\ Disk /\ Drift /\ [Next]_vars => Disk'
<1> SUFFICES ASSUME InHand, Disk, Drift, [Next]_vars PROVE Disk'
  OBVIOUS
<1> USE DEF Disk
<1>0. Empty \in [Files -> Seq(Lines)]
  BY DEF Empty
<1>1. ASSUME FlushOk PROVE file' \in [Files -> Seq(Lines)] /\ dropped' \in SUBSET Lines
  BY <1>1 DEF FlushOk
<1>2. ASSUME FlushFails PROVE Disk'
  <2>1. Contents(buffered["persist"]) \subseteq Lines
    BY DEF Contents, Files
  <2>2. QED
    BY <1>2, <2>1 DEF FlushFails, Files
<1>3. CASE FlushTick
  BY <1>0, <1>1, <1>2, <1>3 DEF FlushTick
<1>4. CASE TakeStop
  BY <1>0, <1>1, <1>2, <1>4 DEF TakeStop, Exit, fileVars
<1>5. CASE WriteBuffered \/ WriteThrough \/ WriteFails
  <2>1. entry \in Lines /\ Target \in Files
    BY <1>5, LineTypes DEF WriteBuffered, WriteThrough, WriteFails, WriteDone, InHand, Target, Files
  <2>2. CASE WriteBuffered
    BY <2>1, <2>2 DEF WriteBuffered
  <2>3. CASE WriteThrough
    BY <2>1, <2>3 DEF WriteThrough
  <2>4. CASE WriteFails
    BY <2>1, <2>4 DEF WriteFails
  <2>5. QED
    BY <1>5, <2>2, <2>3, <2>4
<1>6. CASE OthersWrite
  <2>1. PICK n \in Lines : file' = [file EXCEPT !["persist"] = Append(file["persist"], n)]
    BY <1>6, OthersLine
  <2>2. Append(file["persist"], n) \in Seq(Lines)
    BY <2>1 DEF Files
  <2>3. UNCHANGED <<buffered, dropped>>
    BY <1>6 DEF OthersWrite
  <2>4. QED
    BY <2>1, <2>2, <2>3
<1>7. QED
  BY <1>0, <1>3, <1>4, <1>5, <1>6, FileFrame DEF fileVars

\* Which steps touch what the processes left behind may write.
LEMMA DriftFrame == [Next]_vars => Start \/ OthersWrite \/ UNCHANGED adrift
<1> USE DEF vars, peerVars, taskVars, ringVars, fileVars, lifeVars
<1>1. Bridge \/ Read \/ ReadEof => UNCHANGED adrift
  BY DEF Bridge, Acknowledge, Refuse, Forward, AskStop, Close, Read, ReadEof
<1>2. Handle => UNCHANGED adrift
  BY DEF Handle, TakeAck, TakeReject, TakeStop, TakeEntry, TakeClosed, ChannelEnded
<1>3. RegistrationTimeout \/ FlushTick \/ Crash \/ WriteLog => UNCHANGED adrift
  BY DEF RegistrationTimeout, FlushTick, Crash, WriteLog, Evict, Push, WriteBuffered, WriteThrough, WriteFails,
         WriteDone
<1>4. QED
  BY <1>1, <1>2, <1>3 DEF Next

\* A process that is left behind holds entries.
LEMMA HeldTypes == Queues /\ Tasks /\ Disk => Held \subseteq Entries
<1> SUFFICES ASSUME Queues, Tasks, Disk PROVE Held \subseteq Entries
  OBVIOUS
<1>1. Contents(buffered["persist"]) \subseteq Lines
  BY DEF Contents, Disk, Files
<1>2. \A f \in Contents(chan) \cup Contents(sock) : f \in Frames
  BY DEF Contents, Queues
<1>3. \A f \in Frames : f.entry \in 0..MaxEntries
  BY DEF Frames
<1>4. (0..MaxEntries) \ {0} \subseteq Entries
  BY LogdAssumption DEF Entries
<1>5. entry \in 0..MaxEntries
  BY DEF Tasks
<1>6. QED
  BY <1>1, <1>2, <1>3, <1>4, <1>5 DEF Held, Lines

LEMMA DriftStep == Queues /\ Tasks /\ Disk /\ Drift /\ [Next]_vars => Drift'
<1> SUFFICES ASSUME Queues, Tasks, Disk, Drift, [Next]_vars PROVE Drift'
  OBVIOUS
<1>1. CASE Start
  BY <1>1, HeldTypes DEF Start, Drift
<1>2. CASE OthersWrite
  BY <1>2 DEF OthersWrite, Drift
<1>3. QED
  BY <1>1, <1>2, DriftFrame DEF Drift

\* Every step keeps the types.
LEMMA TypeStep == InHand /\ TypeOK /\ [Next]_vars => TypeOK'
<1>1. TypeOK' <=> Ends' /\ Queues' /\ Tasks' /\ Rings' /\ Disk' /\ Drift'
  BY DEF TypeOK, Ends, Queues, Tasks, Rings, Disk, Drift
<1>2. QED
  BY <1>1, Types, LogdAssumption, EndsStep, QueuesStep, TasksStep, RingsStep, DiskStep, DriftStep

-----------------------------------------------------------------------------
(* The messages on their way.                                              *)

\* A frame at the end leaves the first one first.
LEMMA HeadOfAppend ==
  ASSUME NEW s \in Seq(Frames), NEW f \in Frames
  PROVE  /\ Append(s, f) # <<>>
         /\ s # <<>> => Head(Append(s, f)) = Head(s)
         /\ s = <<>> => Head(Append(s, f)) = f
BY AppendProperties

\* The answer of the Bridge comes first.
LEMMA AnswerFirstStep == TypeOK /\ AnswerFirst /\ [Next]_vars => AnswerFirst'
<1> SUFFICES ASSUME TypeOK, AnswerFirst, [Next]_vars, main' = "up", ~registered'
             PROVE  AnswerFirst'
  BY DEF AnswerFirst
<1> USE DEF vars, peerVars, taskVars, ringVars, fileVars, lifeVars
<1>0. Queues
  BY Types
<1>1. CASE Start
  BY <1>1 DEF Start, AnswerFirst
<1>2. CASE Acknowledge \/ Refuse
  <2>1. PICK t \in {"Ack", "Reject"} : sock' = Append(sock, Command(t))
    BY <1>2 DEF Acknowledge, Refuse
  <2>2. Command(t) \in Frames /\ Command(t).type = t
    BY Commands
  <2>3. /\ sock' # <<>>
        /\ sock # <<>> => Head(sock') = Head(sock)
        /\ sock = <<>> => Head(sock') = Command(t)
    BY <1>0, <2>1, <2>2, HeadOfAppend DEF Queues
  <2>4. UNCHANGED <<chan, main, registered, reader>> /\ peer = "registering"
    BY <1>2 DEF Acknowledge, Refuse
  <2>5. QED
    BY <2>2, <2>3, <2>4 DEF AnswerFirst
<1>3. CASE Forward \/ AskStop
  <2>1. PICK f \in Frames : sock' = Append(sock, f)
    <3>1. CASE AskStop
      BY <3>1, Commands DEF AskStop
    <3>2. CASE Forward
      <4>1. [type |-> "Forward", entry |-> sent + 1] \in Frames
        BY <3>2, LogdAssumption DEF Forward, TypeOK, Frames
      <4>2. QED
        BY <3>2, <4>1 DEF Forward
    <3>3. QED
      BY <1>3, <3>1, <3>2
  <2>2. sock' # <<>> /\ (sock # <<>> => Head(sock') = Head(sock))
    BY <1>0, <2>1, HeadOfAppend DEF Queues
  <2>3. UNCHANGED <<chan, main, registered, reader, peer>> /\ peer = "serving"
    BY <1>3 DEF Forward, AskStop
  <2>4. QED
    BY <2>2, <2>3 DEF AnswerFirst
<1>4. CASE Close
  BY <1>4 DEF Close, AnswerFirst
<1>5. CASE Read
  <2>1. /\ sock # <<>> /\ Head(sock) \in Frames /\ sock' = Tail(sock)
        /\ UNCHANGED <<main, registered, reader, peer>>
    BY <1>0, <1>5, HeadTailProperties DEF Read, Queues
  <2>2. chan' = chan \o Decode(Head(sock))
    BY <1>5 DEF Read
  <2>3. chan \o Decode(Head(sock)) = IF Head(sock).type \in Decoded THEN Append(chan, Head(sock)) ELSE chan
    BY <1>0, <2>1, Decoding DEF Queues
  <2>4. /\ Append(chan, Head(sock)) # <<>>
        /\ chan # <<>> => Head(Append(chan, Head(sock))) = Head(chan)
        /\ chan = <<>> => Head(Append(chan, Head(sock))) = Head(sock)
    BY <1>0, <2>1, HeadOfAppend DEF Queues
  <2>5. CASE chan # <<>>
    BY <2>1, <2>2, <2>3, <2>4, <2>5 DEF AnswerFirst
  <2>6. CASE chan = <<>>
    <3>1. Head(sock).type \in {"Ack", "Reject"}
      BY <2>1, <2>6 DEF AnswerFirst
    <3>2. Head(sock).type \in Decoded
      BY <3>1, LogdAssumption
    <3>3. QED
      BY <2>2, <2>3, <2>4, <2>6, <3>1, <3>2 DEF AnswerFirst
  <2>7. QED
    BY <2>5, <2>6
<1>6. CASE ReadEof
  <2>1. /\ chan' = Append(chan, Command("Closed"))
        /\ reader' = "done" /\ sock = <<>> /\ peer = "closed" /\ reader # "done"
        /\ UNCHANGED <<main, registered, sock, peer>>
    BY <1>6 DEF ReadEof
  <2>2. chan' # <<>> /\ (chan # <<>> => Head(chan') = Head(chan))
    BY <1>0, <2>1, Commands, HeadOfAppend DEF Queues
  <2>3. chan = <<>> => chan' = <<Command("Closed")>>
    BY <2>1
  <2>4. QED
    BY <2>1, <2>2, <2>3 DEF AnswerFirst
<1>7. CASE TakeAck \/ TakeReject \/ ChannelEnded \/ Crash
  BY <1>7 DEF TakeAck, TakeReject, ChannelEnded, Crash, Exit
<1>8. CASE TakeStop \/ TakeEntry
  <2>1. ~registered /\ main = "up" /\ chan # <<>> /\ Head(chan).type \in {"Stop", "Forward"}
    BY <1>8 DEF TakeStop, TakeEntry, Take
  <2>2. chan = <<Command("Closed")>>
    BY <2>1 DEF AnswerFirst
  <2>3. QED
    BY <2>1, <2>2 DEF Command
<1>9. CASE TakeClosed
  <2>1. /\ ~registered /\ main = "up" /\ chan # <<>> /\ Head(chan).type = "Closed" /\ chan' = Tail(chan)
        /\ UNCHANGED <<sock, peer, reader>>
    BY <1>9 DEF TakeClosed, Take
  <2>2. sock = <<>> /\ chan = <<Command("Closed")>> /\ peer = "closed"
    BY <2>1 DEF AnswerFirst
  <2>3. chan' = <<>>
    BY <2>1, <2>2
  <2>4. QED
    BY <2>1, <2>2, <2>3 DEF AnswerFirst
<1>10. CASE RegistrationTimeout \/ FlushTick \/ OthersWrite
  BY <1>10 DEF RegistrationTimeout, FlushTick, OthersWrite, AnswerFirst
<1>11. CASE WriteLog
  BY <1>11 DEF WriteLog, Evict, Push, WriteBuffered, WriteThrough, WriteFails, WriteDone, AnswerFirst
<1>12. CASE UNCHANGED vars
  BY <1>12 DEF AnswerFirst
<1>13. QED
  BY <1>1, <1>2, <1>3, <1>4, <1>5, <1>6, <1>7, <1>8, <1>9, <1>10, <1>11, <1>12
  DEF Next, Bridge, Handle

\* The forwards of a sequence with one more frame.
LEMMA ForwardsAppend ==
  ASSUME NEW s \in Seq(Frames), NEW f \in Frames
  PROVE  /\ \A k \in Forwards(s) : k \in Forwards(Append(s, f)) /\ Append(s, f)[k] = s[k]
         /\ \A k \in Forwards(s) : k < Len(s) + 1 /\ k \in Nat
         /\ Append(s, f)[Len(s) + 1] = f
         /\ f.type = "Forward" => Forwards(Append(s, f)) = Forwards(s) \cup {Len(s) + 1}
         /\ f.type # "Forward" => Forwards(Append(s, f)) = Forwards(s)
<1> DEFINE t == Append(s, f)
<1>1. Len(t) = Len(s) + 1 /\ Len(s) \in Nat /\ t[Len(s) + 1] = f /\ \A k \in 1..Len(s) : t[k] = s[k]
  BY AppendProperties, LenProperties
<1>2. 1..Len(t) = (1..Len(s)) \cup {Len(s) + 1}
  BY <1>1
<1> HIDE DEF t
<1>3. QED
  BY <1>1, <1>2 DEF Forwards, t

\* The forwards of a sequence without its first frame.
LEMMA ForwardsTail ==
  ASSUME NEW s \in Seq(Frames), s # <<>>
  PROVE  /\ \A k \in Forwards(Tail(s)) : k \in Nat /\ 1 < k + 1 /\ k + 1 \in Forwards(s) /\ Tail(s)[k] = s[k + 1]
         /\ \A k \in Forwards(s) : k = 1 \/ (k - 1 \in Forwards(Tail(s)) /\ Tail(s)[k - 1] = s[k])
         /\ \A k \in Forwards(s) : k \in Nat \ {0}
         /\ 1 \in Forwards(s) <=> Head(s).type = "Forward"
         /\ s[1] = Head(s)
<1>1. Len(s) \in Nat \ {0} /\ Len(Tail(s)) = Len(s) - 1 /\ \A k \in 1..Len(s) - 1 : Tail(s)[k] = s[k + 1]
  BY HeadTailProperties, EmptySeq
<1>2. Head(s) = s[1]
  OBVIOUS
<1>3. QED
  BY <1>1, <1>2 DEF Forwards

\* main takes the entries one after the other, none left out.
LEMMA NextTaken ==
  ASSUME TypeOK, Queue, chan # <<>>, Head(chan).type = "Forward"
  PROVE  Head(chan).entry = taken + 1 /\ taken + 1 \in Entries
<1>1. chan \in Seq(Frames) /\ taken \in Nat /\ sent \in 0..MaxEntries /\ MaxEntries \in Nat
  BY LogdAssumption DEF TypeOK
<1>2. 1 \in Forwards(chan) /\ chan[1] = Head(chan) /\ \A k \in Forwards(chan) : k \in Nat \ {0}
  BY <1>1, ForwardsTail
<1>3. Head(chan).entry \in taken + 1..sent
  BY <1>2 DEF Queue, Waits
<1>4. taken + 1 \in taken + 1..sent /\ "Forward" \in Decoded
  BY <1>1, <1>2, <1>3 DEF Queue
<1>5. Holds(chan, taken + 1) \/ Holds(sock, taken + 1)
  BY <1>4 DEF Queue
<1>6. CASE Holds(chan, taken + 1)
  <2>1. PICK k \in Forwards(chan) : chan[k].entry = taken + 1
    BY <1>6 DEF Holds
  <2>2. k = 1 \/ chan[1].entry < chan[k].entry
    BY <1>2 DEF Queue, Ordered
  <2>3. QED
    BY <1>1, <1>2, <1>3, <2>1, <2>2 DEF Entries
<1>7. CASE Holds(sock, taken + 1)
  <2>1. PICK l \in Forwards(sock) : sock[l].entry = taken + 1
    BY <1>7 DEF Holds
  <2>2. chan[1].entry < sock[l].entry
    BY <1>2 DEF Queue
  <2>3. QED
    BY <1>1, <1>2, <1>3, <2>1, <2>2 DEF Entries
<1>8. QED
  BY <1>5, <1>6, <1>7

\* A stretch that begins later is part of the one that begins earlier.
LEMMA Above ==
  ASSUME NEW a \in Nat, NEW b \in Nat, NEW c \in Nat, a <= b, NEW n \in b + 1..c
  PROVE  n \in a + 1..c /\ n # b
OBVIOUS

\* What is on its way stays in order and complete.
LEMMA QueueStep == TypeOK /\ Queue /\ [Next]_vars => Queue'
<1> SUFFICES ASSUME TypeOK, Queue, [Next]_vars PROVE Queue'
  OBVIOUS
<1>0. /\ sock \in Seq(Frames) /\ chan \in Seq(Frames) /\ Len(sock) \in Nat /\ Len(chan) \in Nat
      /\ taken \in Nat /\ sent \in Nat /\ MaxEntries \in Nat
  BY LogdAssumption DEF TypeOK
<1>1. CASE Start
  <2>1. chan' = <<>> /\ sock' = <<>> /\ taken' = sent' /\ sent' = sent
    BY <1>1 DEF Start
  <2>2. QED
    BY <1>0, <2>1 DEF Queue, Waits, Ordered, Forwards
\* A command does not matter.
<1>2. CASE Acknowledge \/ Refuse \/ AskStop \/ ReadEof
  <2>1. UNCHANGED <<taken, sent>>
    BY <1>2 DEF Acknowledge, Refuse, AskStop, ReadEof, lifeVars, peerVars
  <2>2. PICK t \in {"Ack", "Reject", "Stop", "Closed"} :
          \/ sock' = Append(sock, Command(t)) /\ chan' = chan
          \/ chan' = Append(chan, Command(t)) /\ sock' = sock
    BY <1>2 DEF Acknowledge, Refuse, AskStop, ReadEof
  <2>3. ASSUME NEW s \in Seq(Frames)
        PROVE  /\ Forwards(Append(s, Command(t))) = Forwards(s)
               /\ \A k \in Forwards(s) : Append(s, Command(t))[k] = s[k]
    BY Commands, ForwardsAppend
  <2>4. /\ Forwards(sock') = Forwards(sock) /\ \A k \in Forwards(sock) : sock'[k] = sock[k]
        /\ Forwards(chan') = Forwards(chan) /\ \A k \in Forwards(chan) : chan'[k] = chan[k]
    BY <1>0, <2>2, <2>3
  <2>5. QED
    BY <2>1, <2>4 DEF Queue, Waits, Ordered, Holds
<1>3. CASE Forward
  <2> DEFINE f == [type |-> "Forward", entry |-> sent + 1]
             new == Len(sock) + 1
  <2>1. f \in Frames
    BY <1>0, <1>3 DEF Forward, Frames
  <2>2. sock' = Append(sock, f) /\ sent' = sent + 1 /\ UNCHANGED <<chan, taken>>
    BY <1>3 DEF Forward, lifeVars
  <2>3. /\ Forwards(sock') = Forwards(sock) \cup {new}
        /\ \A k \in Forwards(sock) : k < new /\ k \in Nat /\ sock'[k] = sock[k]
        /\ sock'[new].entry = sent + 1
    <3>1. f.type = "Forward" /\ f.entry = sent + 1
      OBVIOUS
    <3>2. QED
      BY <1>0, <2>1, <2>2, <3>1, ForwardsAppend
  <2>3a. new \in Nat
    BY <1>0
  <2> HIDE DEF f, new
  <2>4. \A k \in Forwards(sock) : sock[k].entry \in taken + 1..sent
    BY DEF Queue, Waits
  <2>5. \A k \in Forwards(chan) : chan[k].entry \in taken + 1..sent
    BY DEF Queue, Waits
  <2>5a. taken <= sent /\ \A k, l \in Forwards(sock) : k < l => sock[k].entry < sock[l].entry
    BY DEF Queue, Ordered
  <2>6. Waits(chan)' /\ Waits(sock)'
    <3>1. \A k \in Forwards(chan') : chan'[k].entry \in taken' + 1..sent'
      BY <1>0, <2>2, <2>5
    <3>2. \A k \in Forwards(sock) : sock'[k].entry \in taken' + 1..sent'
      <4>1. taken \in Nat /\ sent \in Nat /\ sent' = sent + 1 /\ taken' = taken
        BY <1>0, <2>2
      <4>2. ASSUME NEW k \in Forwards(sock) PROVE sock'[k].entry \in taken' + 1..sent'
        <5>1. sock'[k] = sock[k] /\ sock[k].entry \in taken + 1..sent
          BY <2>3, <2>4
        <5>2. QED
          BY <4>1, <5>1
      <4>3. QED
        BY <4>2
    <3>3. sent + 1 \in taken' + 1..sent'
      BY <1>0, <2>2, <2>5a
    <3>4. \A k \in Forwards(sock') : sock'[k].entry \in taken' + 1..sent'
      BY <2>3, <3>2, <3>3
    <3>5. QED
      BY <3>1, <3>4 DEF Waits
  <2>7. ASSUME NEW k \in Forwards(sock'), NEW l \in Forwards(sock'), k < l
        PROVE  sock'[k].entry < sock'[l].entry
    <3>1. k \in Forwards(sock)
      BY <1>0, <2>3, <2>7, <2>3a
    <3>2. CASE l \in Forwards(sock)
      BY <2>3, <2>5a, <2>7, <3>1, <3>2
    <3>3. CASE l = new
      BY <1>0, <2>3, <2>4, <3>1, <3>3
    <3>4. QED
      BY <2>3, <2>7, <3>2, <3>3
  <2>8. ASSUME NEW k \in Forwards(chan'), NEW l \in Forwards(sock')
        PROVE  chan'[k].entry < sock'[l].entry
    <3>1. chan'[k] = chan[k] /\ chan[k].entry \in taken + 1..sent /\ k \in Forwards(chan)
      BY <2>2, <2>5
    <3>2. CASE l \in Forwards(sock)
      BY <2>3, <3>1, <3>2 DEF Queue
    <3>3. CASE l = new
      BY <1>0, <2>3, <3>1, <3>3
    <3>4. QED
      BY <2>3, <2>8, <3>2, <3>3
  <2>9. ASSUME "Forward" \in Decoded, NEW n \in taken' + 1..sent' PROVE Holds(chan', n) \/ Holds(sock', n)
    <3>1. CASE n = sent + 1
      BY <2>3, <3>1 DEF Holds
    <3>2. CASE n # sent + 1
      <4>1. Holds(chan, n) \/ Holds(sock, n)
        BY <1>0, <2>2, <2>9, <3>2 DEF Queue
      <4>2. QED
        BY <2>2, <2>3, <4>1 DEF Holds
    <3>3. QED
      BY <3>1, <3>2
  <2>10. /\ taken' <= sent' /\ Ordered(chan') /\ Ordered(sock')
         /\ Forwards(chan') # {} => "Forward" \in Decoded
    <3>1. taken' <= sent'
      BY <1>0, <2>2, <2>5a
    <3>2. Ordered(sock')
      BY <2>7 DEF Ordered
    <3>3. QED
      BY <2>2, <3>1, <3>2 DEF Queue
  <2>11. QED
    BY <2>6, <2>8, <2>9, <2>10 DEF Queue
\* The first frame of the socket goes to the end of the channel.
<1>4. CASE Read
  <2> DEFINE f == Head(sock)
             rest == Tail(sock)
             new == Len(chan) + 1
  <2>1. f \in Frames /\ rest \in Seq(Frames) /\ sock # <<>> /\ sock' = rest /\ UNCHANGED <<taken, sent>>
    BY <1>0, <1>4, HeadTailProperties DEF Read, peerVars, lifeVars
  <2>2. chan' = IF f.type \in Decoded THEN Append(chan, f) ELSE chan
    BY <1>0, <1>4, <2>1, Decoding DEF Read
  <2>3. /\ \A k \in Forwards(rest) : k \in Nat /\ 1 < k + 1 /\ k + 1 \in Forwards(sock) /\ rest[k] = sock[k + 1]
        /\ \A k \in Forwards(sock) : k = 1 \/ (k - 1 \in Forwards(rest) /\ rest[k - 1] = sock[k])
        /\ \A k \in Forwards(sock) : k \in Nat \ {0}
        /\ 1 \in Forwards(sock) <=> f.type = "Forward"
        /\ sock[1] = f
    BY <1>0, <2>1, ForwardsTail
  <2>4. /\ \A k \in Forwards(chan) : k < new /\ k \in Nat
        /\ f.type = "Forward" /\ f.type \in Decoded =>
             /\ Forwards(chan') = Forwards(chan) \cup {new} /\ chan'[new] = f
             /\ \A k \in Forwards(chan) : chan'[k] = chan[k]
        /\ ~(f.type = "Forward" /\ f.type \in Decoded) =>
             /\ Forwards(chan') = Forwards(chan)
             /\ \A k \in Forwards(chan) : chan'[k] = chan[k]
    BY <1>0, <2>1, <2>2, ForwardsAppend
  <2>5. new \in Nat
    BY <1>0
  <2> HIDE DEF f, rest, new
  <2>6. /\ \A k \in Forwards(sock) : sock[k].entry \in taken + 1..sent
        /\ \A k \in Forwards(chan) : chan[k].entry \in taken + 1..sent
        /\ \A k, l \in Forwards(sock) : k < l => sock[k].entry < sock[l].entry
    BY DEF Queue, Waits, Ordered
  <2>7. /\ \A k \in Forwards(rest) : rest[k].entry \in taken + 1..sent
        /\ \A k, l \in Forwards(rest) : k < l => rest[k].entry < rest[l].entry
        /\ f.type = "Forward" =>
             /\ f.entry \in taken + 1..sent
             /\ \A k \in Forwards(rest) : f.entry < rest[k].entry
    <3>2. \A k \in Forwards(rest) : rest[k].entry \in taken + 1..sent
      BY <2>3, <2>6
    <3>3. \A k, l \in Forwards(rest) : k < l => rest[k].entry < rest[l].entry
      BY <2>3, <2>6
    <3>4. f.type = "Forward" => f.entry \in taken + 1..sent /\ \A k \in Forwards(rest) : f.entry < rest[k].entry
      BY <2>3, <2>6
    <3>5. QED
      BY <3>2, <3>3, <3>4
  <2>8. CASE f.type = "Forward" /\ f.type \in Decoded
    <3>1. Forwards(chan') = Forwards(chan) \cup {new} /\ chan'[new] = f
          /\ \A k \in Forwards(chan) : chan'[k] = chan[k]
      BY <2>4, <2>8
    <3>2. Waits(chan)' /\ Waits(sock)'
      BY <2>1, <2>6, <2>7, <2>8, <3>1 DEF Waits
    <3>3. Ordered(chan') /\ Ordered(sock')
      <4>1. \A k \in Forwards(chan) : chan[k].entry < f.entry
        BY <2>3, <2>8 DEF Queue
      <4>2. QED
        BY <2>1, <2>4, <2>5, <2>7, <3>1, <4>1 DEF Ordered, Queue
    <3>4. \A k \in Forwards(chan'), l \in Forwards(sock') : chan'[k].entry < sock'[l].entry
      BY <2>1, <2>3, <2>7, <2>8, <3>1 DEF Queue
    <3>5. ASSUME NEW n \in taken' + 1..sent' PROVE Holds(chan', n) \/ Holds(sock', n)
      <4>1. Holds(chan, n) \/ Holds(sock, n)
        BY <2>1, <2>8, <3>5 DEF Queue
      <4>2. QED
        BY <2>1, <2>3, <3>1, <4>1 DEF Holds
    <3>6. QED
      BY <2>1, <2>8, <3>2, <3>3, <3>4, <3>5 DEF Queue
  <2>9. CASE ~(f.type = "Forward" /\ f.type \in Decoded)
    <3>1. Forwards(chan') = Forwards(chan) /\ \A k \in Forwards(chan) : chan'[k] = chan[k]
      BY <2>4, <2>9
    <3>2. Waits(chan)' /\ Waits(sock)'
      BY <2>1, <2>6, <2>7, <3>1 DEF Waits
    <3>3. Ordered(chan') /\ Ordered(sock')
      BY <2>1, <2>7, <3>1 DEF Ordered, Queue
    <3>4. \A k \in Forwards(chan'), l \in Forwards(sock') : chan'[k].entry < sock'[l].entry
      BY <2>1, <2>3, <3>1 DEF Queue
    <3>5. ASSUME "Forward" \in Decoded, NEW n \in taken' + 1..sent' PROVE Holds(chan', n) \/ Holds(sock', n)
      <4>1. Holds(chan, n) \/ Holds(sock, n)
        BY <2>1, <3>5 DEF Queue
      <4>2. 1 \notin Forwards(sock)
        BY <2>3, <2>9, <3>5
      <4>3. QED
        BY <2>1, <2>3, <3>1, <4>1, <4>2 DEF Holds
    <3>6. QED
      BY <2>1, <3>1, <3>2, <3>3, <3>4, <3>5 DEF Queue
  <2>10. QED
    BY <2>8, <2>9
\* The channel loses its first message: a command, or the next entry.
<1>5. ASSUME chan # <<>>, chan' = Tail(chan), UNCHANGED <<sock, sent>>, taken' \in {taken, taken + 1},
             Head(chan).type # "Forward" => taken' = taken,
             Head(chan).type = "Forward" => taken' = Head(chan).entry
      PROVE  Queue'
  <2> DEFINE rest == Tail(chan)
  <2>1. /\ \A k \in Forwards(rest) : k \in Nat /\ 1 < k + 1 /\ k + 1 \in Forwards(chan) /\ rest[k] = chan[k + 1]
        /\ \A k \in Forwards(chan) : k = 1 \/ (k - 1 \in Forwards(rest) /\ rest[k - 1] = chan[k])
        /\ \A k \in Forwards(chan) : k \in Nat \ {0}
        /\ 1 \in Forwards(chan) <=> Head(chan).type = "Forward"
        /\ chan[1] = Head(chan)
    BY <1>0, <1>5, ForwardsTail
  <2>2. chan' = rest /\ sock' = sock /\ sent' = sent
    BY <1>5
  <2>2a. taken' \in Nat /\ taken <= taken' /\ (Head(chan).type = "Forward" => taken' = Head(chan).entry)
    <3>1. taken' \in {taken, taken + 1} /\ (Head(chan).type = "Forward" => taken' = Head(chan).entry)
      BY <1>5
    <3>2. QED
      BY <1>0, <3>1
  <2> HIDE DEF rest
  <2>3. /\ \A k \in Forwards(sock) : sock[k].entry \in taken + 1..sent
        /\ \A k \in Forwards(chan) : chan[k].entry \in taken + 1..sent
        /\ \A k, l \in Forwards(chan) : k < l => chan[k].entry < chan[l].entry
    BY DEF Queue, Waits, Ordered
  <2>4. /\ taken' <= sent
        /\ \A k \in Forwards(rest) : rest[k].entry \in taken' + 1..sent
        /\ \A k \in Forwards(sock) : sock[k].entry \in taken' + 1..sent
    <3>1. CASE Head(chan).type = "Forward"
      <4>1. \A k \in Forwards(rest) : Head(chan).entry < rest[k].entry
        BY <2>1, <2>3, <3>1
      <4>2. \A k \in Forwards(sock) : Head(chan).entry < sock[k].entry
        BY <2>1, <3>1 DEF Queue
      <4>3. Head(chan).entry \in taken + 1..sent
        BY <2>1, <2>3, <3>1
      <4>4. taken' = Head(chan).entry
        BY <2>2a, <3>1
      <4>5. taken' <= sent
        BY <1>0, <4>3, <4>4
      <4>6. \A k \in Forwards(rest) : rest[k].entry \in taken' + 1..sent
        <5>1. SUFFICES ASSUME NEW k \in Forwards(rest) PROVE rest[k].entry \in taken' + 1..sent
          OBVIOUS
        <5>2. rest[k].entry \in taken + 1..sent
          BY <2>1, <2>3
        <5>3. taken' < rest[k].entry
          BY <4>1, <4>4
        <5>4. QED
          BY <1>0, <2>2a, <5>2, <5>3
      <4>7. \A k \in Forwards(sock) : sock[k].entry \in taken' + 1..sent
        BY <1>0, <2>2a, <2>3, <4>2, <4>4
      <4>8. QED
        BY <4>5, <4>6, <4>7
    <3>2. CASE Head(chan).type # "Forward"
      BY <1>5, <2>1, <2>3, <3>2 DEF Queue
    <3>3. QED
      BY <3>1, <3>2
  <2>5. Ordered(rest)
    BY <2>1, <2>3 DEF Ordered
  <2>6. \A k \in Forwards(rest), l \in Forwards(sock) : rest[k].entry < sock[l].entry
    BY <2>1 DEF Queue
  <2>7. ASSUME "Forward" \in Decoded, NEW n \in taken' + 1..sent PROVE Holds(rest, n) \/ Holds(sock, n)
    <3>1. n \in taken + 1..sent /\ n # taken'
      BY <1>0, <2>2a, Above
    <3>2. Holds(chan, n) \/ Holds(sock, n)
      BY <2>7, <3>1 DEF Queue
    <3>3. 1 \in Forwards(chan) => chan[1].entry # n
      BY <2>1, <2>2a, <3>1
    <3>4. QED
      BY <2>1, <3>2, <3>3 DEF Holds
  <2>8. QED
    BY <2>1, <2>2, <2>4, <2>5, <2>6, <2>7 DEF Queue, Waits
<1>6. CASE Taken /\ Head(chan).type # "Forward" /\ UNCHANGED taken
  BY <1>5, <1>6 DEF Taken
<1>7. CASE TakeEntry
  <2>1. chan # <<>> /\ Head(chan).type = "Forward" /\ chan' = Tail(chan) /\ taken' = Head(chan).entry
        /\ UNCHANGED <<sock, sent>>
    BY <1>7 DEF TakeEntry, Take, peerVars
  <2>2. Head(chan).entry = taken + 1
    BY <1>0, <2>1, NextTaken
  <2>3. QED
    BY <1>5, <2>1, <2>2
<1>8. CASE UNCHANGED <<sock, chan, taken, sent>>
  BY <1>8 DEF Queue, Waits, Ordered, Holds
<1>9. QED
  BY <1>1, <1>2, <1>3, <1>4, <1>6, <1>7, <1>8, QueueFrame

\* Nothing is taken before the acknowledgement.
LEMMA TakenRegistered ==
  ASSUME AnswerFirst, TakeEntry \/ TakeStop
  PROVE  registered
<1> SUFFICES ASSUME ~registered PROVE FALSE
  OBVIOUS
<1>1. main = "up" /\ chan # <<>> /\ Head(chan).type \in {"Stop", "Forward"}
  BY DEF TakeStop, TakeEntry, Take
<1>2. chan = <<Command("Closed")>>
  BY <1>1 DEF AnswerFirst
<1>3. QED
  BY <1>1, <1>2 DEF Command

\* What is in hand is the last entry taken, after the acknowledgement.
LEMMA InHandStep == TypeOK /\ Queue /\ AnswerFirst /\ InHand /\ [Next]_vars => InHand'
<1> SUFFICES ASSUME TypeOK, Queue, AnswerFirst, InHand, [Next]_vars PROVE InHand'
  OBVIOUS
<1> USE DEF vars, peerVars, taskVars, ringVars, fileVars, lifeVars
<1>1. CASE Start
  BY <1>1 DEF Start, InHand
<1>2. CASE Bridge
  BY <1>2 DEF Bridge, Acknowledge, Refuse, Forward, AskStop, Close, InHand
<1>3. CASE Read \/ ReadEof
  BY <1>3 DEF Read, ReadEof, InHand
<1>4. CASE TakeAck
  BY <1>4 DEF TakeAck, InHand, Take
<1>5. CASE TakeReject \/ TakeStop \/ TakeClosed \/ ChannelEnded
  BY <1>5 DEF TakeReject, TakeStop, TakeClosed, ChannelEnded, InHand
<1>6. CASE TakeEntry
  <2>1. registered
    BY <1>6, TakenRegistered
  <2>2. /\ stage' = "evict" /\ registered' = registered /\ waiting' = waiting
        /\ entry' = Head(chan).entry /\ taken' = entry' /\ chan # <<>> /\ Head(chan).type = "Forward"
    BY <1>6 DEF TakeEntry, Take
  <2>3. entry' \in Entries
    BY <2>2, NextTaken
  <2>4. QED
    BY <2>1, <2>2, <2>3 DEF InHand
<1>7. CASE RegistrationTimeout \/ FlushTick \/ Crash \/ OthersWrite
  BY <1>7 DEF RegistrationTimeout, FlushTick, Crash, OthersWrite, InHand
<1>8. CASE Evict
  BY <1>8 DEF Evict, InHand
<1>9. CASE Push
  BY <1>9 DEF Push, InHand
<1>10. CASE WriteBuffered \/ WriteThrough \/ WriteFails
  <2>1. stage' = "idle" /\ entry' = 0 /\ UNCHANGED <<waiting, registered>>
    BY <1>10 DEF WriteBuffered, WriteThrough, WriteFails, WriteDone
  <2>2. QED
    BY <2>1 DEF InHand
<1>11. CASE UNCHANGED vars
  BY <1>11 DEF InHand
<1>12. QED
  BY <1>1, <1>2, <1>3, <1>4, <1>5, <1>6, <1>7, <1>8, <1>9, <1>10, <1>11 DEF Next, Handle, WriteLog

-----------------------------------------------------------------------------
(* The ring.                                                               *)

\* Which steps touch the entry in hand.
LEMMA StageFrame ==
  InHand /\ [Next]_vars =>
    \/ Start \/ TakeEntry \/ Push
    \/ UNCHANGED <<stage, entry, taken>>
    \/ (WriteBuffered \/ WriteThrough \/ WriteFails)
<1> SUFFICES ASSUME InHand, [Next]_vars
             PROVE  \/ Start \/ TakeEntry \/ Push
                    \/ UNCHANGED <<stage, entry, taken>>
                    \/ (WriteBuffered \/ WriteThrough \/ WriteFails)
  OBVIOUS
<1> USE DEF vars, peerVars, taskVars, ringVars, fileVars, lifeVars
<1>1. Bridge \/ Read \/ ReadEof => UNCHANGED <<stage, entry, taken>>
  BY DEF Bridge, Acknowledge, Refuse, Forward, AskStop, Close, Read, ReadEof
<1>2. TakeAck \/ TakeReject \/ TakeStop \/ TakeClosed \/ ChannelEnded => UNCHANGED <<stage, entry, taken>>
  BY DEF TakeAck, TakeReject, TakeStop, TakeClosed, ChannelEnded
<1>3. FlushTick \/ Crash \/ Evict \/ OthersWrite => UNCHANGED <<stage, entry, taken>>
  BY DEF FlushTick, Crash, Evict, OthersWrite
\* The timeout finds nothing in hand.
<1>4. RegistrationTimeout => UNCHANGED <<stage, entry, taken>>
  BY DEF RegistrationTimeout, InHand
<1>5. QED
  BY <1>1, <1>2, <1>3, <1>4 DEF Next, Handle, WriteLog

\* The ends of a ring, when it loses its first entry or gets one more.
LEMMA Lasts ==
  ASSUME NEW s \in Seq(Entries)
  PROVE  /\ s # <<>> => /\ Len(s) \in Nat \ {0} /\ s[1] \in Entries /\ Last(s) \in Entries
                        /\ Len(Tail(s)) = Len(s) - 1
                        /\ \A i \in 1..Len(s) - 1 : Tail(s)[i] = s[i + 1]
                        /\ Len(s) > 1 => Last(Tail(s)) = Last(s) /\ Tail(s) # <<>>
                        /\ Len(s) = 1 => Tail(s) = <<>> /\ Last(s) = s[1]
         /\ \A n \in Entries : /\ Append(s, n) # <<>> /\ Last(Append(s, n)) = n
                               /\ Len(Append(s, n)) = Len(s) + 1
                               /\ \A i \in 1..Len(s) : Append(s, n)[i] = s[i]
                               /\ Append(s, n)[Len(s) + 1] = n
<1>1. ASSUME s # <<>>
      PROVE  /\ Len(s) \in Nat \ {0} /\ s[1] \in Entries /\ Last(s) \in Entries
             /\ Len(Tail(s)) = Len(s) - 1
             /\ \A i \in 1..Len(s) - 1 : Tail(s)[i] = s[i + 1]
             /\ Len(s) > 1 => Last(Tail(s)) = Last(s) /\ Tail(s) # <<>>
             /\ Len(s) = 1 => Tail(s) = <<>> /\ Last(s) = s[1]
  <2>1. /\ Len(s) \in Nat \ {0} /\ Len(Tail(s)) = Len(s) - 1 /\ Tail(s) \in Seq(Entries)
        /\ \A i \in 1..Len(s) - 1 : Tail(s)[i] = s[i + 1]
    BY <1>1, HeadTailProperties, EmptySeq
  <2>2. s[1] \in Entries /\ Last(s) \in Entries
    BY <2>1, ElementOfSeq DEF Last
  <2>3. Len(s) > 1 => Last(Tail(s)) = Last(s) /\ Tail(s) # <<>>
    <3>1. SUFFICES ASSUME Len(s) > 1 PROVE Last(Tail(s)) = Last(s) /\ Tail(s) # <<>>
      OBVIOUS
    <3>2. Len(s) - 1 \in 1..Len(s) - 1 /\ Len(s) - 1 + 1 = Len(s)
      BY <2>1, <3>1
    <3>3. Tail(s)[Len(s) - 1] = s[Len(s)]
      BY <2>1, <3>2
    <3>4. Len(Tail(s)) # 0
      <4> DEFINE n == Len(s)
                 m == Len(Tail(s))
      <4>1. m = n - 1 /\ n \in Nat /\ n > 1
        BY <2>1, <3>1
      <4> HIDE DEF n, m
      <4>2. m # 0
        BY <4>1
      <4>3. QED
        BY <4>2 DEF m
    <3>5. QED
      BY <2>1, <3>3, <3>4, EmptySeq DEF Last
  <2>4. Len(s) = 1 => Tail(s) = <<>> /\ Last(s) = s[1]
    <3>1. Len(s) = 1 => Len(Tail(s)) = 0
      BY <2>1
    <3>2. QED
      BY <2>1, <3>1, EmptySeq DEF Last
  <2>5. QED
    BY <2>1, <2>2, <2>3, <2>4
<1>2. ASSUME NEW n \in Entries
      PROVE  /\ Append(s, n) # <<>> /\ Last(Append(s, n)) = n
             /\ Len(Append(s, n)) = Len(s) + 1
             /\ \A i \in 1..Len(s) : Append(s, n)[i] = s[i]
             /\ Append(s, n)[Len(s) + 1] = n
  BY AppendProperties DEF Last
<1>3. QED
  BY <1>1, <1>2

\* The byte count is that of the entries held.
LEMMA RingStep == TypeOK /\ Queue /\ InHand /\ RingAccounted /\ [Next]_vars => RingAccounted'
<1> SUFFICES ASSUME TypeOK, Queue, InHand, RingAccounted, [Next]_vars PROVE RingAccounted'
  OBVIOUS
<1>0. /\ ring \in Seq(Entries) /\ bytes \in Nat /\ taken \in Nat /\ RingMax \in Nat /\ Entries \subseteq Nat \ {0}
      /\ Len(ring) \in Nat
  BY LogdAssumption DEF TypeOK, Entries
<1>1. CASE Start
  BY <1>0, <1>1 DEF Start, RingAccounted
<1>2. CASE Evict
  <2> DEFINE h == ring[1]
             l == Last(ring)
             rest == Tail(ring)
  <2>1. /\ main = "up" /\ stage = "evict" /\ ring # <<>> /\ Head(ring) = h /\ ring' = rest
        /\ bytes' = IF bytes >= Size(h) THEN bytes - Size(h) ELSE 0
        /\ UNCHANGED <<stage, taken>>
    BY <1>2 DEF Evict, taskVars, lifeVars
  <2>2. /\ Len(ring) \in Nat \ {0} /\ h \in Entries /\ l \in Entries
        /\ Len(rest) = Len(ring) - 1
        /\ \A i \in 1..Len(ring) - 1 : rest[i] = ring[i + 1]
        /\ Len(ring) > 1 => Last(rest) = l /\ rest # <<>>
        /\ Len(ring) = 1 => rest = <<>> /\ l = h
    BY <1>0, <2>1, Lasts
  <2>3. /\ \A i \in 1..Len(ring) : ring[i] = h + i - 1
        /\ bytes = Total[l] - Total[h - 1]
        /\ bytes <= RingMax \/ Len(ring) = 1
        /\ l = taken - 1
    BY <2>1 DEF RingAccounted
  <2>4. /\ Total[l] \in Nat /\ Total[h] \in Nat /\ Total[h - 1] \in Nat /\ h \in Nat
        /\ Size(h) = Total[h] - Total[h - 1] /\ Size(h) \in Nat
    BY <1>0, <2>2, Sizes DEF Size
  <2>5. CASE Len(ring) = 1
    <3>1. ring' = <<>> /\ bytes' = 0
      BY <2>1, <2>2, <2>3, <2>4, <2>5
    <3>2. QED
      BY <1>0, <3>1 DEF RingAccounted
  <2>6. CASE Len(ring) > 1
    <3>1. rest[1] = h + 1 /\ rest # <<>> /\ Last(rest) = l
      <4> HIDE DEF h, l, rest
      <4>1. 1 \in 1..Len(ring) - 1 /\ 2 \in 1..Len(ring)
        BY <2>2, <2>6
      <4>2. rest[1] = ring[2]
        BY <2>2, <4>1
      <4>3. ring[2] = h + 1
        BY <2>3, <2>4, <4>1
      <4>4. QED
        BY <2>2, <2>6, <4>2, <4>3
    <3>2. h < l /\ l \in Nat
      <4>1. l = ring[Len(ring)] /\ Len(ring) \in 1..Len(ring)
        BY <2>2 DEF Last
      <4>2. l = h + Len(ring) - 1
        BY <2>3, <4>1
      <4>3. QED
        BY <2>2, <2>4, <2>6, <4>2
    <3>3. Total[h] <= Total[l]
      <4>1. h \in 0..MaxEntries /\ l \in 0..MaxEntries
        BY <2>2, LogdAssumption DEF Entries
      <4>2. Total[h] < Total[l]
        BY <3>2, <4>1, Sizes
      <4>3. QED
        BY <2>4, <4>2
    <3>4. bytes' = Total[l] - Total[h] /\ bytes' <= bytes /\ bytes' \in Nat
      BY <2>1, <2>3, <2>4, <3>3
    <3>6. \A i \in 1..Len(rest) : rest[i] = rest[1] + i - 1
      BY <2>2, <2>3, <2>4, <3>1
    <3>7. bytes' <= RingMax
      <4>1. bytes <= RingMax /\ bytes' <= bytes
        BY <1>0, <2>3, <2>6, <3>4
      <4>2. QED
        BY <1>0, <3>4, <4>1
    <3>8. bytes' = Total[Last(rest)] - Total[rest[1] - 1]
      <4>1. rest[1] - 1 = h
        BY <2>4, <3>1
      <4>2. QED
        BY <3>1, <3>4, <4>1
    <3>9. Last(rest) = taken' - 1 /\ stage' = "evict"
      BY <2>1, <2>3, <3>1
    <3>10. QED
      BY <2>1, <3>1, <3>6, <3>7, <3>8, <3>9 DEF RingAccounted
  <2>7. QED
    BY <2>2, <2>5, <2>6
<1>3. CASE Push
  <2> DEFINE more == Append(ring, entry)
  <2>1. /\ stage = "evict" /\ (Fits \/ ring = <<>>) /\ ring' = more
        /\ bytes' = bytes + Size(entry) /\ stage' = "append" /\ UNCHANGED taken
    BY <1>3 DEF Push, lifeVars
  <2>2. entry = taken /\ entry \in Entries
    BY <2>1 DEF InHand
  <2>3. /\ more # <<>> /\ Last(more) = taken /\ Len(more) = Len(ring) + 1
        /\ \A i \in 1..Len(ring) : more[i] = ring[i]
        /\ more[Len(ring) + 1] = taken
    BY <1>0, <2>2, Lasts
  <2>4. /\ Size(taken) = Total[taken] - Total[taken - 1] /\ Size(taken) \in Nat
        /\ Total[taken] \in Nat /\ Total[taken - 1] \in Nat
    BY <2>2, Sizes DEF Size
  <2>5. CASE ring = <<>>
    <3>1. Len(more) = 1 /\ more[1] = taken /\ bytes = 0
      BY <2>3, <2>5 DEF RingAccounted
    <3>2. bytes' = Total[taken] - Total[taken - 1]
      BY <2>1, <2>2, <2>4, <3>1
    <3>3. QED
      BY <1>0, <2>1, <2>3, <3>1, <3>2 DEF RingAccounted
  <2>6. CASE ring # <<>>
    <3>1. /\ Last(ring) = taken - 1 /\ Len(ring) \in Nat \ {0} /\ ring[1] \in Nat
          /\ bytes = Total[taken - 1] - Total[ring[1] - 1] /\ Total[ring[1] - 1] \in Nat
      BY <1>0, <2>1, <2>6, Lasts, Sizes DEF RingAccounted
    <3>2. bytes' = Total[taken] - Total[ring[1] - 1]
      BY <2>1, <2>2, <2>4, <3>1
    <3>3. bytes' <= RingMax
      BY <2>1, <2>6 DEF Fits
    <3>4. more[1] = ring[1]
      BY <2>3, <3>1
    <3>5. ASSUME NEW i \in 1..Len(more) PROVE more[i] = more[1] + i - 1
      <4>1. taken - 1 = ring[1] + Len(ring) - 1
        BY <3>1 DEF RingAccounted, Last
      <4>2. CASE i = Len(ring) + 1
        BY <1>0, <2>3, <3>1, <3>4, <4>1, <4>2
      <4>3. CASE i # Len(ring) + 1
        <5>1. i \in 1..Len(ring)
          BY <1>0, <2>3, <4>3
        <5>2. QED
          BY <2>3, <3>4, <5>1 DEF RingAccounted
      <4>4. QED
        BY <4>2, <4>3
    <3>6. QED
      BY <2>1, <2>3, <3>2, <3>3, <3>4, <3>5 DEF RingAccounted
  <2>7. QED
    BY <2>5, <2>6
<1>4. CASE TakeEntry
  <2>1. /\ stage = "idle" /\ chan # <<>> /\ Head(chan).type = "Forward" /\ taken' = Head(chan).entry
        /\ stage' = "evict" /\ UNCHANGED <<ring, bytes>>
    BY <1>4 DEF TakeEntry, Take, ringVars
  <2>2. taken' = taken + 1
    BY <2>1, NextTaken
  <2>3. taken' - 1 = taken
    BY <1>0, <2>2
  <2>4. QED
    BY <2>1, <2>3 DEF RingAccounted
<1>5. CASE UNCHANGED <<ring, bytes, stage, taken>>
  BY <1>5 DEF RingAccounted
<1>6. CASE WriteBuffered \/ WriteThrough \/ WriteFails
  <2>1. stage = "append" /\ stage' = "idle" /\ UNCHANGED <<ring, bytes, taken>>
    BY <1>6 DEF WriteBuffered, WriteThrough, WriteFails, WriteDone, ringVars, lifeVars
  <2>2. QED
    BY <2>1 DEF RingAccounted
<1>7. CASE UNCHANGED <<ring, bytes>> /\ ~TakeEntry /\ ~(WriteBuffered \/ WriteThrough \/ WriteFails) /\ ~Start
  <2>1. UNCHANGED <<stage, taken>> \/ Push
    BY <1>7, StageFrame
  <2>2. QED
    BY <1>3, <1>5, <1>7, <2>1
<1>8. QED
  BY <1>1, <1>2, <1>3, <1>4, <1>6, <1>7, RingFrame

-----------------------------------------------------------------------------
(* The files.                                                              *)

\* The last entry that was accepted or passed over.
Done == IF stage = "idle" THEN taken ELSE taken - 1

\* A process's own entries, those from e on, are in order in s, and no entry is
\* later than d.
Ranked(s, e, d) ==
  /\ \A i \in 1..Len(s) : s[i] <= d
  /\ \A i, j \in 1..Len(s) : i < j /\ s[i] >= e /\ s[j] >= e => s[i] < s[j]

\* What was written is in order and older than what is in hand; what the others
\* may write is older than the process.
Older == Ranked(Written, first, Done)
Past == first <= Done + 1 /\ \A n \in adrift : n < first

\* What was taken in this life is accounted for.
Accounted ==
  main = "up" => \A n \in first..taken : n \in Contents(Written) \cup dropped \cup {entry}

\* A process that is gone took its buffers with it.
Gone == main # "up" => buffered = Empty

\* A write is to the file of the log, of the last entry taken.
LEMMA WritesPersist ==
  ASSUME InHand, WriteBuffered \/ WriteThrough \/ WriteFails
  PROVE  /\ Target = "persist" /\ entry = taken /\ entry \in Entries /\ main = "up"
         /\ stage = "append" /\ stage' = "idle" /\ UNCHANGED <<main, first, taken>>
BY DEF WriteBuffered, WriteThrough, WriteFails, WriteDone, InHand, Target, lifeVars

\* The log is a sequence of entries.
LEMMA Persist ==
  ASSUME Disk
  PROVE  /\ file["persist"] \in Seq(Lines) /\ buffered["persist"] \in Seq(Lines)
         /\ Written \in Seq(Lines)
BY DEF Disk, Files, Written

\* What a step does to the file and the buffer of the log.
LEMMA WrittenFrame ==
  ASSUME TypeOK, InHand, [Next]_vars
  PROVE  \/ UNCHANGED <<file["persist"], buffered["persist"], dropped>>
         \/ UNCHANGED <<file["persist"], dropped>> /\ buffered'["persist"] = <<>> /\ (Start \/ main' # "up")
         \/ /\ FlushTick \/ TakeStop
            /\ file'["persist"] = Written /\ buffered'["persist"] = <<>> /\ UNCHANGED dropped
         \/ /\ FlushTick \/ TakeStop
            /\ UNCHANGED <<main, file["persist"]>> /\ buffered'["persist"] = <<>>
            /\ dropped' = dropped \cup Contents(buffered["persist"])
         \/ /\ WriteBuffered
            /\ UNCHANGED <<file["persist"], dropped>> /\ buffered'["persist"] = Append(buffered["persist"], entry)
         \/ /\ WriteThrough
            /\ file'["persist"] = Written /\ buffered'["persist"] = <<entry>> /\ UNCHANGED dropped
         \/ /\ WriteFails
            /\ UNCHANGED <<file["persist"], buffered["persist"]>> /\ dropped' = dropped \cup {entry}
         \/ /\ OthersWrite /\ UNCHANGED <<buffered["persist"], dropped>>
            /\ \E n \in adrift \cup {0} : n \in Lines /\ file'["persist"] = Append(file["persist"], n)
<1> USE DEF fileVars
<1>0. Disk /\ DOMAIN file = Files /\ DOMAIN buffered = Files
  BY Types DEF Disk
<1>1. CASE UNCHANGED fileVars
  BY <1>1
<1>2. CASE UNCHANGED <<file, dropped>> /\ buffered' = Empty /\ (Start \/ main' # "up")
  BY <1>2 DEF Empty, Files
<1>3. CASE FlushTick
  BY <1>0, <1>3 DEF FlushTick, FlushOk, FlushFails, Empty, Files, Written
<1>4. CASE TakeStop
  BY <1>0, <1>4 DEF TakeStop, FlushOk, FlushFails, Exit, Empty, Files, Written
<1>5. CASE WriteBuffered
  BY <1>0, <1>5, WritesPersist DEF WriteBuffered, Files
<1>6. CASE WriteThrough
  BY <1>0, <1>6, WritesPersist DEF WriteThrough, Files, Written
<1>7. CASE WriteFails
  BY <1>7 DEF WriteFails
<1>9. CASE OthersWrite
  BY <1>9, OthersLine, Types
<1>8. QED
  BY <1>1, <1>2, <1>3, <1>4, <1>5, <1>6, <1>7, <1>9, FileFrame

\* The life is that of its process.
LEMMA LifeFrame ==
  ASSUME [Next]_vars
  PROVE  \/ Start \/ OthersWrite
         \/ main # "up" /\ UNCHANGED <<main, fileVars, lifeVars, stage>>
         \/ main = "up" /\ UNCHANGED first
<1> USE DEF vars, peerVars, taskVars, ringVars, fileVars, lifeVars
<1>1. Bridge \/ Read \/ ReadEof => UNCHANGED <<main, fileVars, lifeVars, stage>>
  BY DEF Bridge, Acknowledge, Refuse, Forward, AskStop, Close, Read, ReadEof
<1>2. Handle => main = "up" /\ UNCHANGED first
  BY DEF Handle, TakeAck, TakeReject, TakeStop, TakeEntry, TakeClosed, ChannelEnded, Take
<1>3. RegistrationTimeout \/ FlushTick \/ Crash => main = "up" /\ UNCHANGED first
  BY DEF RegistrationTimeout, FlushTick, Crash
<1>4. WriteLog => main = "up" /\ UNCHANGED first
  BY DEF WriteLog, Evict, Push, WriteBuffered, WriteThrough, WriteFails, WriteDone
<1>5. QED
  BY <1>1, <1>2, <1>3, <1>4 DEF Next

\* Done only grows.
LEMMA DoneGrows ==
  ASSUME TypeOK, Queue, InHand, [Next]_vars
  PROVE  /\ Done \in Int /\ Done' \in Int /\ Done <= Done'
         /\ WriteBuffered \/ WriteThrough \/ WriteFails => Done' = entry /\ Done < entry
         /\ Done' # Done => Start \/ WriteBuffered \/ WriteThrough \/ WriteFails
<1>0. taken \in Nat /\ sent \in Nat /\ taken <= sent
  BY DEF TypeOK, Queue
<1>1. CASE Start
  <2>0. lives' # lives
    BY <1>1, LogdAssumption DEF Start, TypeOK
  <2>1. Done' = sent /\ ~(WriteBuffered \/ WriteThrough \/ WriteFails)
    BY <1>1, <2>0 DEF Start, Done, WriteBuffered, WriteThrough, WriteFails, WriteDone, peerVars
  <2>2. QED
    BY <1>0, <1>1, <2>1 DEF Done
<1>2. CASE TakeEntry
  <2>1. /\ stage = "idle" /\ stage' = "evict" /\ taken' = Head(chan).entry /\ chan # <<>>
        /\ Head(chan).type = "Forward"
    BY <1>2 DEF TakeEntry, Take
  <2>2. taken' = taken + 1
    BY <2>1, NextTaken
  <2>3. Done' = Done /\ Done = taken
    BY <1>0, <2>1, <2>2 DEF Done
  <2>4. ~(WriteBuffered \/ WriteThrough \/ WriteFails)
    BY <2>1 DEF WriteBuffered, WriteThrough, WriteFails, WriteDone
  <2>5. QED
    BY <1>0, <2>3, <2>4
<1>3. CASE Push
  <2>1. stage = "evict" /\ stage' = "append" /\ taken' = taken
    BY <1>3 DEF Push, lifeVars
  <2>2. ~(WriteBuffered \/ WriteThrough \/ WriteFails)
    BY <2>1 DEF WriteBuffered, WriteThrough, WriteFails, WriteDone
  <2>3. QED
    BY <1>0, <2>1, <2>2 DEF Done
<1>4. CASE WriteBuffered \/ WriteThrough \/ WriteFails
  <2>1. Done = taken - 1 /\ Done' = taken /\ entry = taken
    BY <1>4, WritesPersist DEF Done
  <2>2. QED
    BY <1>0, <1>4, <2>1
<1>5. CASE UNCHANGED <<stage, entry, taken>> /\ ~(WriteBuffered \/ WriteThrough \/ WriteFails)
  BY <1>0, <1>5 DEF Done
<1>6. QED
  BY <1>1, <1>2, <1>3, <1>4, <1>5, StageFrame

\* A sequence in order stays so when its end is cut off or when more is appended.
LEMMA InOrder ==
  ASSUME NEW s \in Seq(Lines), NEW t \in Seq(Lines), NEW d \in Int, NEW e \in Nat,
         Ranked(s \o t, e, d)
  PROVE  /\ Ranked(s, e, d)
         /\ \A n \in Lines : d < n => Ranked(Append(s \o t, n), e, n)
<1> DEFINE u == s \o t
<1>1. u \in Seq(Lines) /\ Len(u) \in Nat /\ Len(s) \in Nat /\ Len(s) <= Len(u)
      /\ \A i \in 1..Len(s) : i \in 1..Len(u) /\ u[i] = s[i]
  BY ConcatProperties, LenProperties
<1>2. /\ \A i \in 1..Len(u) : u[i] <= d /\ u[i] \in Nat
      /\ \A i, j \in 1..Len(u) : i < j /\ u[i] >= e /\ u[j] >= e => u[i] < u[j]
  <2>1. \A i \in 1..Len(u) : u[i] \in Lines
    BY <1>1, ElementOfSeq
  <2>2. QED
    BY <2>1, LineTypes DEF Ranked
<1> HIDE DEF u
<1>3. Ranked(s, e, d)
  BY <1>1, <1>2 DEF Ranked
<1>4. ASSUME NEW n \in Lines, d < n PROVE Ranked(Append(u, n), e, n)
  <2>1. /\ Len(Append(u, n)) = Len(u) + 1 /\ Append(u, n)[Len(u) + 1] = n
        /\ \A i \in 1..Len(u) : Append(u, n)[i] = u[i]
    BY <1>1, AppendProperties
  <2>2. \A i \in 1..Len(u) + 1 : i \in 1..Len(u) \/ i = Len(u) + 1
    BY <1>1
  <2>3. n \in Nat
    BY LineTypes
  <2>4. \A i \in 1..Len(u) : Append(u, n)[i] < n /\ Append(u, n)[i] \in Nat
    <3>1. ASSUME NEW i \in 1..Len(u) PROVE u[i] < n /\ u[i] \in Nat
      <4>1. u[i] \in Nat /\ u[i] <= d /\ d < n
        BY <1>2, <1>4
      <4>2. QED
        BY <2>3, <4>1
    <3>2. QED
      BY <2>1, <3>1
  <2>5. \A i \in 1..Len(u) + 1 : Append(u, n)[i] <= n
    BY <2>1, <2>2, <2>3, <2>4
  <2>6. ASSUME NEW i \in 1..Len(u) + 1, NEW j \in 1..Len(u) + 1, i < j,
               Append(u, n)[i] >= e, Append(u, n)[j] >= e
        PROVE  Append(u, n)[i] < Append(u, n)[j]
    <3>1. i \in 1..Len(u)
      BY <1>1, <2>6
    <3>2. CASE j \in 1..Len(u)
      BY <1>2, <2>1, <2>6, <3>1, <3>2
    <3>3. CASE j = Len(u) + 1
      BY <2>1, <2>4, <3>1, <3>3
    <3>4. QED
      BY <2>2, <3>2, <3>3
  <2>7. QED
    BY <2>1, <2>5, <2>6 DEF Ranked
<1>5. QED
  BY <1>3, <1>4 DEF u

\* What others insert below a process's own entries leaves those in order.
LEMMA Inserted ==
  ASSUME NEW s \in Seq(Lines), NEW t \in Seq(Lines), NEW d \in Int, NEW e \in Nat, NEW n \in Lines,
         Ranked(s \o t, e, d), n < e, n <= d
  PROVE  Ranked(Append(s, n) \o t, e, d)
<1> DEFINE u == s \o t
           v == Append(s, n) \o t
           m == Len(s) + 1
           At(i) == IF i < m THEN i ELSE i - 1
<1>1. /\ Append(s, n) \in Seq(Lines) /\ Len(Append(s, n)) = m /\ Append(s, n)[m] = n
      /\ \A i \in 1..Len(s) : Append(s, n)[i] = s[i]
      /\ Len(s) \in Nat /\ Len(t) \in Nat
  BY AppendProperties, LenProperties
<1>2. /\ Len(u) = Len(s) + Len(t)
      /\ \A i \in 1..Len(s) + Len(t) : u[i] = IF i <= Len(s) THEN s[i] ELSE t[i - Len(s)]
  BY ConcatProperties
<1>3. /\ Len(v) = m + Len(t)
      /\ \A i \in 1..m + Len(t) : v[i] = IF i <= m THEN Append(s, n)[i] ELSE t[i - m]
  BY <1>1, ConcatProperties
<1>4. ASSUME NEW i \in 1..Len(v), i # m PROVE At(i) \in 1..Len(u) /\ v[i] = u[At(i)]
  <2>1. CASE i < m
    <3>1. i \in 1..Len(s) /\ i \in 1..Len(s) + Len(t) /\ i \in 1..m + Len(t) /\ i <= m
      BY <1>1, <1>3, <2>1
    <3>2. v[i] = s[i] /\ u[i] = s[i]
      BY <1>1, <1>2, <1>3, <3>1
    <3>3. QED
      BY <1>2, <2>1, <3>1, <3>2
  <2>2. CASE i > m
    <3>1. /\ i - 1 \in 1..Len(s) + Len(t) /\ i \in 1..m + Len(t) /\ ~(i <= m) /\ ~(i - 1 <= Len(s))
          /\ i - 1 - Len(s) = i - m /\ ~(i < m)
      BY <1>1, <1>3, <2>2
    <3>2. v[i] = t[i - m] /\ u[i - 1] = t[i - m]
      BY <1>2, <1>3, <3>1
    <3>3. QED
      BY <1>2, <3>1, <3>2
  <2>3. QED
    BY <1>1, <1>3, <1>4, <2>1, <2>2
<1>5. m \in Nat /\ m \in 1..Len(v) /\ v[m] = n /\ Len(v) \in Nat
  BY <1>1, <1>3
<1>6. \A i, j \in 1..Len(v) : i < j /\ i # m /\ j # m => At(i) < At(j)
  BY <1>5
<1>7. /\ \A i \in 1..Len(u) : u[i] <= d
      /\ \A i, j \in 1..Len(u) : i < j /\ u[i] >= e /\ u[j] >= e => u[i] < u[j]
  BY DEF Ranked
<1>8. ~(n >= e)
  BY LineTypes
<1> HIDE DEF u, v, m, At
<1>9. \A i \in 1..Len(v) : v[i] <= d
  BY <1>4, <1>5, <1>7
<1>10. \A i, j \in 1..Len(v) : i < j /\ v[i] >= e /\ v[j] >= e => v[i] < v[j]
  BY <1>4, <1>5, <1>6, <1>7, <1>8
<1>11. QED
  BY <1>9, <1>10 DEF Ranked, v

\* A log stays in order for its process as it goes on, and for the next one.
LEMMA Later ==
  ASSUME NEW s \in Seq(Lines), NEW d \in Int, NEW c \in Int, NEW e \in Nat, NEW f \in Nat,
         Ranked(s, e, d), d <= c, f = e \/ d < f
  PROVE  Ranked(s, f, c)
<1>1. \A i \in 1..Len(s) : s[i] \in Nat /\ s[i] <= d
  <2>1. \A i \in 1..Len(s) : s[i] \in Lines
    BY ElementOfSeq
  <2>2. QED
    BY <2>1, LineTypes DEF Ranked
<1>2. \A i \in 1..Len(s) : s[i] <= c
  BY <1>1
<1>3. CASE f = e
  BY <1>2, <1>3 DEF Ranked
<1>4. CASE d < f
  <2>1. \A i \in 1..Len(s) : ~(s[i] >= f)
    BY <1>1, <1>4
  <2>2. QED
    BY <1>2, <2>1 DEF Ranked
<1>5. QED
  BY <1>3, <1>4

\* What is appended to the end of two sequences is appended to both together.
LEMMA Joins ==
  ASSUME NEW s \in Seq(Lines), NEW t \in Seq(Lines), NEW n \in Lines
  PROVE  /\ s \o Append(t, n) = Append(s \o t, n)
         /\ (s \o t) \o <<n>> = Append(s \o t, n)
         /\ s \o <<>> = s /\ s \o t \in Seq(Lines) /\ (s \o t) \o <<>> = s \o t
<1>1. s \o t \in Seq(Lines) /\ <<n>> \in Seq(Lines)
  BY ConcatProperties
<1>2. Append(t, n) = t \o <<n>> /\ Append(s \o t, n) = (s \o t) \o <<n>>
  BY <1>1, AppendIsConcat
<1>3. (s \o t) \o <<n>> = s \o (t \o <<n>>)
  BY <1>1, ConcatAssociative
<1>4. QED
  BY <1>1, <1>2, <1>3, ConcatEmptySeq

\* The contents of a concatenation and of a sequence with one more entry.
LEMMA AllContents ==
  ASSUME NEW s \in Seq(Lines), NEW t \in Seq(Lines)
  PROVE  /\ Contents(s \o t) = Contents(s) \cup Contents(t)
         /\ \A n \in Lines : Contents(Append(s, n)) = Contents(s) \cup {n}
<1>1. Len(s) \in Nat /\ Len(t) \in Nat /\ DOMAIN s = 1..Len(s) /\ DOMAIN t = 1..Len(t)
  BY LenProperties
<1>2. /\ s \o t \in Seq(Lines) /\ DOMAIN (s \o t) = 1..Len(s) + Len(t)
      /\ \A i \in 1..Len(s) + Len(t) : (s \o t)[i] = IF i <= Len(s) THEN s[i] ELSE t[i - Len(s)]
  BY ConcatProperties, LenProperties
<1>3. Contents(s \o t) \subseteq Contents(s) \cup Contents(t)
  <2>1. ASSUME NEW i \in 1..Len(s) + Len(t)
        PROVE  i \in 1..Len(s) \/ (i > Len(s) /\ i - Len(s) \in 1..Len(t))
    BY <1>1
  <2>2. QED
    BY <1>1, <1>2, <2>1 DEF Contents
<1>4. Contents(s) \cup Contents(t) \subseteq Contents(s \o t)
  <2>1. ASSUME NEW i \in 1..Len(s) PROVE s[i] \in Contents(s \o t)
    <3>1. i \in 1..Len(s) + Len(t) /\ i <= Len(s)
      BY <1>1
    <3>2. (s \o t)[i] = s[i]
      BY <1>2, <3>1
    <3>3. QED
      BY <1>2, <3>1, <3>2 DEF Contents
  <2>2. ASSUME NEW i \in 1..Len(t) PROVE t[i] \in Contents(s \o t)
    <3>1. i + Len(s) \in 1..Len(s) + Len(t) /\ ~(i + Len(s) <= Len(s)) /\ i + Len(s) - Len(s) = i
      BY <1>1
    <3>2. (s \o t)[i + Len(s)] = t[i]
      BY <1>2, <3>1
    <3>3. QED
      BY <1>2, <3>1, <3>2 DEF Contents
  <2>3. QED
    BY <1>1, <2>1, <2>2 DEF Contents
<1>5. ASSUME NEW n \in Lines PROVE Contents(Append(s, n)) = Contents(s) \cup {n}
  <2>1. /\ Append(s, n) \in Seq(Lines) /\ Len(Append(s, n)) = Len(s) + 1 /\ Append(s, n)[Len(s) + 1] = n
        /\ \A i \in 1..Len(s) : Append(s, n)[i] = s[i]
    BY AppendProperties
  <2>2. DOMAIN Append(s, n) = 1..Len(s) + 1
    BY <2>1, LenProperties
  <2>3. 1..Len(s) + 1 = (1..Len(s)) \cup {Len(s) + 1}
    BY <1>1
  <2>4. QED
    BY <1>1, <2>1, <2>2, <2>3 DEF Contents
<1>6. QED
  BY <1>3, <1>4, <1>5

\* How a process ends.
LEMMA MainFrame ==
  ASSUME [Next]_vars
  PROVE  main' = main \/ TakeStop \/ main' \in {"ended", "rejected", "crashed", "up"}
<1> USE DEF vars, peerVars, taskVars, ringVars, fileVars, lifeVars
<1>1. Bridge \/ Read \/ ReadEof => main' = main
  BY DEF Bridge, Acknowledge, Refuse, Forward, AskStop, Close, Read, ReadEof
<1>2. TakeAck \/ TakeEntry \/ RegistrationTimeout \/ FlushTick => main' = main
  BY DEF TakeAck, TakeEntry, RegistrationTimeout, FlushTick
<1>3. TakeReject \/ TakeClosed \/ ChannelEnded \/ Crash \/ Start
      => main' = main \/ main' \in {"ended", "rejected", "crashed", "up"}
  BY DEF TakeReject, TakeClosed, ChannelEnded, Crash, Start, Exit
<1>4. WriteLog \/ OthersWrite => main' = main
  BY DEF WriteLog, Evict, Push, WriteBuffered, WriteThrough, WriteFails, WriteDone, OthersWrite
<1>5. QED
  BY <1>1, <1>2, <1>3, <1>4 DEF Next, Handle

\* A write that succeeds appends the entry to the log.
LEMMA AppendsWritten ==
  ASSUME TypeOK, InHand, WriteBuffered \/ WriteThrough
  PROVE  Written' = Append(Written, entry)
<1>0. file["persist"] \in Seq(Lines) /\ buffered["persist"] \in Seq(Lines) /\ Written \in Seq(Lines)
  BY Types, Persist
<1>1. Written' = file'["persist"] \o buffered'["persist"]
  BY DEF Written
<1>2. entry \in Lines /\ Target = "persist" /\ DOMAIN buffered = Files /\ DOMAIN file = Files
  BY WritesPersist, LineTypes, Types DEF Disk
<1>3. CASE WriteBuffered
  <2>1. file'["persist"] = file["persist"] /\ buffered'["persist"] = Append(buffered["persist"], entry)
    BY <1>2, <1>3 DEF WriteBuffered, Files
  <2>2. file["persist"] \o Append(buffered["persist"], entry) = Append(file["persist"] \o buffered["persist"], entry)
    BY <1>0, <1>2, Joins
  <2>3. QED
    BY <1>1, <2>1, <2>2 DEF Written
<1>4. CASE WriteThrough
  <2>1. file'["persist"] = Written /\ buffered'["persist"] = <<entry>>
    BY <1>2, <1>4 DEF WriteThrough, Files, Written
  <2>2. Written \o <<entry>> = Append(Written, entry)
    BY <1>0, <1>2, AppendIsConcat
  <2>3. QED
    BY <1>1, <2>1, <2>2
<1>5. QED
  BY <1>3, <1>4

\* A write adds the entry in hand, to the log or to what is known to be lost.
LEMMA WritesAdd ==
  ASSUME TypeOK, InHand, WriteBuffered \/ WriteThrough \/ WriteFails
  PROVE  Contents(Written') \cup dropped' = Contents(Written) \cup dropped \cup {entry}
<1>0. Written \in Seq(Lines) /\ entry \in Lines
  BY Types, Persist, WritesPersist, LineTypes
<1>1. CASE WriteBuffered \/ WriteThrough
  <2>1. Written' = Append(Written, entry) /\ UNCHANGED dropped
    BY <1>1, AppendsWritten DEF WriteBuffered, WriteThrough
  <2>2. Contents(Append(Written, entry)) = Contents(Written) \cup {entry}
    BY <1>0, AllContents
  <2>3. QED
    BY <2>1, <2>2
<1>2. CASE WriteFails
  <2>1. Written' = Written /\ dropped' = dropped \cup {entry}
    BY <1>2 DEF WriteFails, Written
  <2>2. QED
    BY <2>1
<1>3. QED
  BY <1>1, <1>2

\* How the log grows, loses its tail or stays.
LEMMA WrittenStep ==
  ASSUME TypeOK, InHand, [Next]_vars
  PROVE  \/ Written' = Written
         \/ Written' = file["persist"]
         \/ (WriteBuffered \/ WriteThrough) /\ Written' = Append(Written, entry)
         \/ /\ OthersWrite
            /\ \E n \in adrift \cup {0} : n \in Lines /\ Written' = Append(file["persist"], n) \o buffered["persist"]
<1>0. file["persist"] \in Seq(Lines) /\ buffered["persist"] \in Seq(Lines) /\ Written \in Seq(Lines)
  BY Types, Persist
<1>1. Written' = file'["persist"] \o buffered'["persist"]
  BY DEF Written
<1>2. CASE WriteBuffered \/ WriteThrough
  BY <1>2, AppendsWritten
<1>3. CASE buffered'["persist"] = <<>> /\ file'["persist"] \in {file["persist"], Written}
  BY <1>0, <1>1, <1>3, ConcatEmptySeq
<1>4. CASE UNCHANGED <<file["persist"], buffered["persist"]>>
  BY <1>1, <1>4 DEF Written
<1>5. CASE OthersWrite
  <2>1. PICK n \in adrift \cup {0} : n \in Lines /\ file'["persist"] = Append(file["persist"], n)
    BY <1>5, OthersLine, Types
  <2>2. buffered' = buffered
    BY <1>5 DEF OthersWrite
  <2>3. QED
    BY <1>1, <1>5, <2>1, <2>2
<1>6. QED
  BY <1>2, <1>3, <1>4, <1>5, WrittenFrame

\* The first entry of a process changes only with the process.
LEMMA FirstFrame ==
  ASSUME TypeOK, Queue, InHand, [Next]_vars
  PROVE  /\ first \in Nat /\ first' \in Nat /\ Done <= sent /\ sent \in Nat
         /\ Start => first' = sent + 1 /\ Done' = sent
         /\ ~Start => first' = first
<1>1. taken \in Nat /\ sent \in Nat /\ taken <= sent /\ first \in Nat
  BY LogdAssumption DEF TypeOK, Queue
<1>2. Start => first' = sent + 1 /\ Done' = sent
  BY DEF Start, Done
<1>3. ~Start => first' = first
  BY LifeFrame DEF OthersWrite, lifeVars
<1>4. QED
  BY <1>1, <1>2, <1>3 DEF Done

\* The log stays in order, and older than what is in hand.
LEMMA OlderStep == TypeOK /\ Queue /\ InHand /\ Older /\ Past /\ [Next]_vars => Older'
<1> SUFFICES ASSUME TypeOK, Queue, InHand, Older, Past, [Next]_vars PROVE Older'
  OBVIOUS
<1> DEFINE s == file["persist"]
           t == buffered["persist"]
<1>0. s \in Seq(Lines) /\ t \in Seq(Lines) /\ Written = s \o t /\ Written \in Seq(Lines)
  BY Types, Persist DEF Written
<1>1. Done \in Int /\ Done' \in Int /\ Done <= Done' /\ (WriteBuffered \/ WriteThrough => Done' = entry /\ Done < entry)
  BY DoneGrows
<1>2. /\ first \in Nat /\ first' \in Nat
      /\ first' = first \/ Done < first'
      /\ WriteBuffered \/ WriteThrough \/ OthersWrite => first' = first
  <2>1. ~Start => first' = first
    BY FirstFrame
  <2>2. Start => Done < first'
    BY <1>1, FirstFrame
  <2>3. WriteBuffered \/ WriteThrough \/ OthersWrite => first' = first
    BY DEF WriteBuffered, WriteThrough, WriteDone, OthersWrite, lifeVars
  <2>4. QED
    BY <2>1, <2>2, <2>3, FirstFrame
<1>3. Ranked(s \o t, first, Done)
  BY <1>0 DEF Older
<1> HIDE DEF s, t
<1>4. Ranked(s, first, Done) /\ \A n \in Lines : Done < n => Ranked(Append(Written, n), first, n)
  BY <1>0, <1>1, <1>2, <1>3, InOrder
<1>5. ASSUME NEW u \in {Written, s}, Written' = u PROVE Older'
  <2>1. u \in Seq(Lines) /\ Ranked(u, first, Done)
    BY <1>0, <1>3, <1>4
  <2>2. Ranked(u, first', Done')
    BY <1>1, <1>2, <2>1, Later
  <2>3. QED
    BY <1>5, <2>2 DEF Older
<1>6. CASE (WriteBuffered \/ WriteThrough) /\ Written' = Append(Written, entry)
  <2>1. entry \in Lines /\ Done' = entry /\ Done < entry
    BY <1>1, <1>6, WritesPersist, LineTypes
  <2>2. Ranked(Append(Written, entry), first', Done')
    BY <1>2, <1>4, <1>6, <2>1
  <2>3. QED
    BY <1>6, <2>2 DEF Older
<1>7. CASE OthersWrite /\ \E n \in adrift \cup {0} : n \in Lines /\ Written' = Append(s, n) \o t
  <2>1. PICK n \in adrift \cup {0} : n \in Lines /\ Written' = Append(s, n) \o t
    BY <1>7
  <2>2. first' = first /\ n < first /\ n <= Done
    <3>1. first \in Nat \ {0} /\ first <= Done + 1 /\ \A k \in adrift : k < first
      BY LogdAssumption DEF Past, TypeOK
    <3>2. n < first /\ n \in Nat
      BY <2>1, <3>1, LineTypes
    <3>3. QED
      BY <1>1, <1>2, <1>7, <3>1, <3>2
  <2>3. Ranked(Append(s, n) \o t, first, Done)
    BY <1>0, <1>1, <1>2, <1>3, <2>1, <2>2, Inserted
  <2>4. Append(s, n) \o t \in Seq(Lines)
    BY <1>0, <2>1, AppendProperties, ConcatProperties
  <2>5. Ranked(Append(s, n) \o t, first', Done')
    BY <1>1, <1>2, <2>2, <2>3, <2>4, Later
  <2>6. QED
    BY <2>1, <2>5 DEF Older
<1>8. QED
  BY <1>5, <1>6, <1>7, WrittenStep DEF s, t

\* What a process holds when it is left behind was forwarded before.
LEMMA HeldPast == TypeOK /\ Queue /\ InHand /\ Older => \A n \in Held : n <= sent
<1> SUFFICES ASSUME TypeOK, Queue, InHand, Older PROVE \A n \in Held : n <= sent
  OBVIOUS
<1>1. taken \in Nat /\ sent \in Nat /\ taken <= sent /\ Done \in Int /\ Done <= sent
  BY DEF TypeOK, Queue, Done
<1>2. \A n \in Contents(buffered["persist"]) : n <= sent
  <2>1. Contents(buffered["persist"]) \subseteq Contents(Written) /\ Written \in Seq(Lines)
    BY Types, Persist, AllContents DEF Written
  <2>2. \A i \in 1..Len(Written) : Written[i] \in Nat /\ Written[i] <= Done
    BY <2>1, ElementOfSeq, LineTypes DEF Older, Ranked
  <2>3. \A i \in DOMAIN Written : i \in 1..Len(Written)
    BY <2>1, LenProperties
  <2>4. \A n \in Contents(Written) : n \in Nat /\ n <= Done
    BY <2>2, <2>3 DEF Contents
  <2>5. QED
    BY <1>1, <2>1, <2>4
<1>3. entry <= sent
  BY <1>1 DEF InHand
<1>4. ASSUME NEW s \in {chan, sock}, NEW f \in Contents(s), f.type = "Forward" PROVE f.entry <= sent
  <2>1. PICK k \in DOMAIN s : f = s[k]
    BY <1>4 DEF Contents
  <2>2. s \in Seq(Frames)
    BY Types DEF Queues
  <2>3. k \in 1..Len(s)
    BY <2>1, <2>2, LenProperties
  <2>4. k \in Forwards(s)
    BY <1>4, <2>1, <2>3 DEF Forwards
  <2>5. s[k].entry \in taken + 1..sent
    BY <2>4 DEF Queue, Waits
  <2>6. QED
    BY <1>1, <2>1, <2>5
<1>5. QED
  BY <1>2, <1>3, <1>4 DEF Held

\* The others write what is older than the process.
LEMMA PastStep == TypeOK /\ Queue /\ InHand /\ Older /\ Past /\ [Next]_vars => Past'
<1> SUFFICES ASSUME TypeOK, Queue, InHand, Older, Past, [Next]_vars PROVE Past'
  OBVIOUS
<1>0. /\ Done \in Int /\ Done' \in Int /\ Done <= Done' /\ Done <= sent /\ sent \in Nat
      /\ first \in Nat /\ first <= Done + 1 /\ \A n \in adrift : n < first /\ n \in Nat
      /\ Held \subseteq Nat /\ \A n \in Held : n <= sent
  BY DoneGrows, FirstFrame, HeldPast, HeldTypes, LineTypes, Types DEF Past, Drift
<1> DEFINE d == Done
           e == Done'
<1>5. d \in Int /\ e \in Int /\ d <= e /\ first \in Nat /\ first <= d + 1
  BY <1>0
<1> HIDE DEF d, e
<1>1. CASE Start
  <2>1. first' = sent + 1 /\ Done' = sent /\ adrift' \subseteq adrift \cup Held
    BY <1>1, FirstFrame DEF Start
  <2>2. \A n \in adrift : n < sent + 1
    BY <1>0
  <2>3. \A n \in Held : n < sent + 1
    BY <1>0
  <2>4. \A n \in adrift' : n < first'
    BY <2>1, <2>2, <2>3
  <2>5. first' <= Done' + 1
    BY <1>0, <2>1
  <2>6. QED
    BY <2>4, <2>5 DEF Past
<1>2. CASE ~Start
  <2>1. first' = first
    BY <1>2, FirstFrame
  <2>2. \A n \in adrift' : n < first'
    <3>1. adrift' \subseteq adrift
      BY <1>2, DriftFrame DEF OthersWrite
    <3>2. \A n \in adrift : n < first
      BY <1>0
    <3>3. QED
      BY <2>1, <3>1, <3>2
  <2>3. first' <= e + 1
    BY <1>5, <2>1
  <2>4. QED
    BY <2>2, <2>3 DEF Past, e
<1>3. QED
  BY <1>1, <1>2

\* What is written stays written or is known to be lost, while the process lives.
LEMMA ContentsStep ==
  ASSUME TypeOK, InHand, [Next]_vars
  PROVE  \/ Contents(Written) \cup dropped \subseteq Contents(Written') \cup dropped'
         \/ Start \/ main' # "up"
<1> DEFINE s == file["persist"]
           t == buffered["persist"]
<1>0. s \in Seq(Lines) /\ t \in Seq(Lines) /\ Written = s \o t /\ Written' = file'["persist"] \o buffered'["persist"]
  BY Types, Persist DEF Written
<1>1. s \o t \in Seq(Lines) /\ Contents(s \o t) = Contents(s) \cup Contents(t)
  BY <1>0, AllContents, ConcatProperties
<1>2. \A u \in Seq(Lines) : u \o <<>> = u
  BY ConcatEmptySeq
<1> HIDE DEF s, t
<1>3. CASE UNCHANGED <<file["persist"], buffered["persist"], dropped>>
  BY <1>0, <1>3 DEF s, t
<1>4. CASE file'["persist"] = Written /\ buffered'["persist"] = <<>> /\ UNCHANGED dropped
  BY <1>0, <1>1, <1>2, <1>4
<1>5. CASE /\ UNCHANGED file["persist"] /\ buffered'["persist"] = <<>>
           /\ dropped' = dropped \cup Contents(buffered["persist"])
  <2>1. Written' = s
    BY <1>0, <1>2, <1>5 DEF s
  <2>2. QED
    BY <1>0, <1>1, <1>5, <2>1 DEF t
<1>6. CASE WriteBuffered \/ WriteThrough \/ WriteFails
  BY <1>6, WritesAdd
<1>7. CASE OthersWrite
  <2>1. PICK n \in adrift \cup {0} : n \in Lines /\ file'["persist"] = Append(s, n)
    BY <1>7, OthersLine, Types DEF s
  <2>2. Written' = Append(s, n) \o t /\ UNCHANGED dropped
    BY <1>0, <1>7, <2>1 DEF OthersWrite, t
  <2>3. Append(s, n) \in Seq(Lines) /\ Contents(Append(s, n)) = Contents(s) \cup {n}
    BY <1>0, <2>1, AllContents, AppendProperties
  <2>4. Contents(Append(s, n) \o t) = Contents(Append(s, n)) \cup Contents(t)
    BY <1>0, <2>3, AllContents
  <2>5. QED
    BY <1>0, <1>1, <2>2, <2>3, <2>4
<1>8. QED
  BY <1>3, <1>4, <1>5, <1>6, <1>7, WrittenFrame

\* What was taken in this life is in the log, in hand or known to be lost.
LEMMA AccountedStep == TypeOK /\ Queue /\ InHand /\ Accounted /\ [Next]_vars => Accounted'
<1> SUFFICES ASSUME TypeOK, Queue, InHand, Accounted, [Next]_vars, main' = "up",
                    NEW n \in first'..taken'
             PROVE  n \in Contents(Written') \cup dropped' \cup {entry'}
  BY DEF Accounted
<1> DEFINE old == Contents(Written) \cup dropped
           now == Contents(Written') \cup dropped'
<1>0. first \in Nat \ {0} /\ taken \in Nat /\ sent \in Nat
  BY DEF TypeOK
<1>1. CASE Start
  <2>1. first' = sent + 1 /\ taken' = sent
    BY <1>1 DEF Start
  <2>2. QED
    BY <1>0, <2>1
<1>2. CASE ~Start
  <2>1. main = "up" /\ first' = first
    BY <1>2, LifeFrame, FirstFrame DEF OthersWrite
  <2>2. old \subseteq now
    BY <1>2, ContentsStep
  <2>3. CASE TakeEntry
    <3>1. /\ stage = "idle" /\ taken' = entry' /\ taken' = Head(chan).entry /\ chan # <<>>
          /\ Head(chan).type = "Forward"
      BY <2>3 DEF TakeEntry, Take
    <3>2. taken' = taken + 1 /\ entry = 0
      BY <3>1, NextTaken DEF InHand
    <3>3. n = entry' \/ (n \in first..taken /\ n # entry)
      BY <1>0, <2>1, <3>1, <3>2
    <3>4. QED
      BY <2>1, <2>2, <3>3 DEF Accounted
  <2>4. CASE UNCHANGED <<taken, entry>>
    BY <2>1, <2>2, <2>4 DEF Accounted
  <2>5. CASE WriteBuffered \/ WriteThrough \/ WriteFails
    <3>1. taken' = taken
      BY <2>5, WritesPersist DEF WriteBuffered, WriteThrough, WriteFails, WriteDone, lifeVars
    <3>2. now = old \cup {entry}
      BY <2>5, WritesAdd
    <3>3. QED
      BY <2>1, <3>1, <3>2 DEF Accounted
  <2>6. CASE Push
    BY <2>4, <2>6 DEF Push, lifeVars
  <2>7. QED
    BY <1>2, <2>3, <2>4, <2>5, <2>6, StageFrame
<1>3. QED
  BY <1>1, <1>2

\* An asked stop that ends the process has flushed.
LEMMA StopStep ==
  TypeOK /\ Queue /\ InHand /\ Accounted /\ StopKeeps /\ [Next]_vars => StopKeeps'
<1> SUFFICES ASSUME TypeOK, Queue, InHand, Accounted, StopKeeps, [Next]_vars, main' = "stopped",
                    NEW n \in first'..taken'
             PROVE  n \in Contents(file'["persist"]) \cup dropped'
  BY DEF StopKeeps
<1>1. ~Start
  BY DEF Start
<1>2. CASE main # "up" /\ ~OthersWrite
  <2>1. UNCHANGED <<main, file, dropped, first, taken>>
    BY <1>1, <1>2, LifeFrame DEF fileVars, lifeVars
  <2>2. QED
    BY <2>1 DEF StopKeeps
<1>5. CASE OthersWrite
  <2>1. PICK k \in adrift \cup {0} : k \in Lines /\ file'["persist"] = Append(file["persist"], k)
    BY <1>5, OthersLine, Types
  <2>2. Contents(file["persist"]) \subseteq Contents(file'["persist"])
    BY <2>1, Types, Persist, AllContents
  <2>3. UNCHANGED <<main, dropped, first, taken>>
    BY <1>5 DEF OthersWrite
  <2>4. QED
    BY <2>2, <2>3 DEF StopKeeps
<1>3. CASE main = "up" /\ ~OthersWrite
  <2>1. TakeStop
    <3>1. main' = main \/ TakeStop \/ main' \in {"ended", "rejected", "crashed", "up"}
      BY MainFrame
    <3>2. QED
      BY <1>3, <3>1
  <2>2. /\ stage = "idle" /\ UNCHANGED <<first, taken, dropped>>
        /\ file' = [f \in Files |-> file[f] \o buffered[f]]
    BY <1>3, <2>1 DEF TakeStop, Take, FlushOk, FlushFails, Exit, lifeVars
  <2>3. file'["persist"] = Written
    BY <2>2 DEF Files, Written
  <2>4. entry = 0 /\ first \in 1..MaxEntries + 1 /\ n # 0
    BY <2>2, LogdAssumption DEF InHand, TypeOK
  <2>5. n \in Contents(Written) \cup dropped \cup {entry}
    BY <1>3, <2>2 DEF Accounted
  <2>6. QED
    BY <2>2, <2>3, <2>4, <2>5
<1>4. QED
  BY <1>2, <1>3, <1>5

NoBootstrap == file["bootstrap"] = <<>> /\ buffered["bootstrap"] = <<>>

\* What is written goes to the file of the log.
LEMMA BootstrapStep == TypeOK /\ InHand /\ NoBootstrap /\ [Next]_vars => NoBootstrap'
<1> SUFFICES ASSUME TypeOK, InHand, NoBootstrap, [Next]_vars PROVE NoBootstrap'
  OBVIOUS
<1> USE DEF NoBootstrap, fileVars
<1>0. DOMAIN file = Files /\ DOMAIN buffered = Files /\ "bootstrap" \in Files /\ "bootstrap" # "persist"
  BY DEF TypeOK, Files
<1>1. CASE UNCHANGED fileVars
  BY <1>1
<1>2. CASE UNCHANGED <<file, dropped>> /\ buffered' = Empty
  BY <1>0, <1>2 DEF Empty
<1>3. ASSUME FlushOk \/ FlushFails PROVE file'["bootstrap"] = <<>>
  <2>1. <<>> \o <<>> = <<>>
    BY ConcatEmptySeq, EmptySeq
  <2>2. QED
    BY <1>0, <1>3, <2>1 DEF FlushOk, FlushFails
<1>4. CASE FlushTick
  BY <1>0, <1>3, <1>4 DEF FlushTick, FlushFails, Empty
<1>5. CASE TakeStop
  BY <1>0, <1>3, <1>5 DEF TakeStop, FlushFails, Exit, Empty
<1>6. CASE WriteBuffered \/ WriteThrough \/ WriteFails
  <2>1. Target = "persist"
    BY <1>6, WritesPersist
  <2>2. QED
    BY <1>0, <1>6, <2>1 DEF WriteBuffered, WriteThrough, WriteFails
<1>7. CASE OthersWrite
  BY <1>0, <1>7 DEF OthersWrite
<1>8. QED
  BY <1>1, <1>2, <1>4, <1>5, <1>6, <1>7, FileFrame

\* The buffers of a process that is gone are gone.
LEMMA GoneStep == TypeOK /\ InHand /\ Gone /\ [Next]_vars => Gone'
<1> SUFFICES ASSUME TypeOK, InHand, Gone, [Next]_vars, main' # "up" PROVE buffered' = Empty
  BY DEF Gone
<1>1. CASE main # "up"
  <2>1. UNCHANGED buffered \/ Start
    BY <1>1, LifeFrame DEF OthersWrite, fileVars
  <2>2. QED
    BY <1>1, <2>1 DEF Gone, Start
<1>2. CASE main = "up"
  <2>1. \/ Start \/ Bridge \/ Read \/ ReadEof \/ TakeAck \/ TakeEntry \/ RegistrationTimeout \/ FlushTick \/ WriteLog
        \/ TakeReject \/ TakeStop \/ TakeClosed \/ ChannelEnded \/ Crash \/ OthersWrite
    BY <1>2 DEF Next, Handle, vars
  <2>2. ~(Bridge \/ Read \/ ReadEof)
    BY <1>2 DEF Bridge, Acknowledge, Refuse, Forward, AskStop, Close, Read, ReadEof
  <2>3. ~(Start \/ TakeAck \/ TakeEntry \/ RegistrationTimeout \/ FlushTick)
    BY <1>2 DEF Start, TakeAck, TakeEntry, RegistrationTimeout, FlushTick
  <2>4. ~WriteLog /\ ~OthersWrite
    BY <1>2 DEF OthersWrite, WriteLog, Evict, Push, WriteBuffered, WriteThrough, WriteFails, WriteDone
  <2>5. QED
    BY <1>2, <2>1, <2>2, <2>3, <2>4 DEF TakeReject, TakeStop, TakeClosed, ChannelEnded, Crash, Exit
<1>3. QED
  BY <1>1, <1>2

-----------------------------------------------------------------------------
(* The invariant, and the theorems.                                        *)

Inv ==
  /\ TypeOK /\ Queue /\ AnswerFirst /\ InHand
  /\ RingAccounted /\ Older /\ Past /\ Accounted /\ StopKeeps /\ NoBootstrap /\ Gone

\* The invariant holds at the start.
LEMMA InitInv == Init => Inv
<1> SUFFICES ASSUME Init PROVE Inv
  OBVIOUS
<1>0. MaxEntries \in Nat /\ MaxLives \in Nat /\ RingMax \in Nat
  BY LogdAssumption
<1>1. TypeOK
  <2>1. Ends
    BY <1>0 DEF Init, Ends
  <2>2. Queues /\ Rings /\ Disk /\ Drift
    BY DEF Init, Queues, Rings, Disk, Drift, Empty, Files
  <2>3. waiting \in BOOLEAN /\ registered \in BOOLEAN
    BY Zenon DEF Init
  <2>4. Tasks
    BY <1>0, <2>3 DEF Init, Tasks
  <2>5. QED
    BY <2>1, <2>2, <2>4, Types
<1>2. Queue /\ AnswerFirst /\ InHand
  BY DEF Init, Queue, Waits, Ordered, Forwards, AnswerFirst, InHand
<1>3. RingAccounted
  BY <1>0 DEF Init, RingAccounted
<1>4. Written = <<>>
  BY ConcatEmptySeq, EmptySeq DEF Init, Written, Empty, Files
<1>5. Older /\ Past /\ Accounted /\ StopKeeps /\ Gone
  BY <1>4 DEF Init, Older, Ranked, Past, Done, Accounted, StopKeeps, Gone
<1>6. NoBootstrap
  BY DEF Init, NoBootstrap, Empty, Files
<1>7. QED
  BY <1>1, <1>2, <1>3, <1>5, <1>6 DEF Inv

\* Every step keeps the invariant.
LEMMA NextInv == Inv /\ [Next]_vars => Inv'
BY TypeStep, QueueStep, AnswerFirstStep, InHandStep, RingStep, OlderStep, PastStep, AccountedStep, StopStep,
   BootstrapStep, GoneStep DEF Inv

\* In every behaviour of logd the invariant holds.
THEOREM Invariance == Spec => []Inv
BY InitInv, NextInv, PTL DEF Spec

\* The state of logd, of its connection and of its files is always well formed.
THEOREM TypeCorrect == Spec => []TypeOK
<1>1. Inv => TypeOK
  BY DEF Inv
<1>2. QED
  BY <1>1, Invariance, PTL

\* ring_buffer_bytes is always the size of what the ring holds, and bounded, for
\* any entries whose sizes are positive and for any bound.
THEOREM RingAccountedHolds == Spec => []RingAccounted
<1>1. Inv => RingAccounted
  BY DEF Inv
<1>2. QED
  BY <1>1, Invariance, PTL

\* What a process of logd took is written once and in its order, or known to be
\* lost to an error, whatever other processes of logd append to the same file in
\* between: for any number of entries and of processes, followed or not.
THEOREM KeptHolds == Spec => []Kept
<1>1. Inv => Kept
  BY DEF Inv, Accounted, Older, Ranked, Kept
<1>2. QED
  BY <1>1, Invariance, PTL

\* Nothing is written to the bootstrap file, and the registration timeout never
\* finds a write_log to cancel.
THEOREM BootstrapEmptyHolds == Spec => []BootstrapEmpty
<1>1. Inv => BootstrapEmpty
  BY DEF Inv, NoBootstrap, InHand, BootstrapEmpty
<1>2. QED
  BY <1>1, Invariance, PTL

\* A stop that was asked for loses nothing that was taken.
THEOREM StopKeepsHolds == Spec => []StopKeeps
<1>1. Inv => StopKeeps
  BY DEF Inv
<1>2. QED
  BY <1>1, Invariance, PTL

-----------------------------------------------------------------------------
(* logd implements the append-only log.                                    *)

\* The log begins empty.
LEMMA RefineInit == Init => Durable!Init
BY DEF Init, Durable!Init, Empty, Files

\* An accepted entry goes to the tail or spills it, a flush syncs it, an error
\* or an end loses it; every other step is a stutter.
LEMMA RefineNext == Inv /\ [Next]_vars => [Durable!Next]_(Durable!vars)
<1> SUFFICES ASSUME Inv, [Next]_vars
             PROVE  \/ Durable!Next
                    \/ UNCHANGED <<file["persist"], buffered["persist"], Done, first>>
  BY DEF Durable!vars, Done
<1> DEFINE stored == file["persist"]
           tail == buffered["persist"]
<1>0. TypeOK /\ InHand /\ Queue /\ Past
  BY DEF Inv
<1>1. /\ Done \in Int /\ Done' \in Int /\ Done <= Done'
      /\ WriteBuffered \/ WriteThrough \/ WriteFails => Done' = entry /\ Done < entry
      /\ Done' # Done => Start \/ WriteBuffered \/ WriteThrough \/ WriteFails
  BY <1>0, DoneGrows
<1>2. CASE Start
  <2>1. UNCHANGED stored /\ tail' = <<>>
    BY <1>2 DEF Start, Empty, Files
  <2>2. first' = Done' + 1 /\ Done' >= Done
    BY <1>0, <1>1, <1>2, FirstFrame
  <2>3. QED
    BY <2>1, <2>2 DEF Durable!Next, Durable!Begin, Done
<1>2a. ~Start => UNCHANGED first
  BY <1>0, FirstFrame
<1>3. CASE WriteBuffered
  <2>1a. UNCHANGED first
    BY <1>3 DEF WriteBuffered, WriteDone, lifeVars
  <2>1. UNCHANGED stored /\ tail' = Append(tail, Done') /\ Done' > Done
    <3>1. Target = "persist" /\ DOMAIN buffered = Files
      BY <1>0, <1>3, WritesPersist, Types DEF Disk
    <3>2. UNCHANGED stored /\ tail' = Append(tail, entry)
      BY <1>3, <3>1 DEF WriteBuffered, Files
    <3>3. QED
      BY <1>1, <1>3, <3>2
  <2>2. QED
    BY <2>1, <2>1a DEF Durable!Next, Durable!Accept, Done
<1>4. CASE WriteThrough
  <2>1a. UNCHANGED first
    BY <1>4 DEF WriteThrough, WriteDone, lifeVars
  <2>1. stored' = stored \o tail /\ tail' = <<Done'>> /\ Done' > Done
    <3>1. Target = "persist" /\ DOMAIN buffered = Files /\ DOMAIN file = Files
      BY <1>0, <1>4, WritesPersist, Types DEF Disk
    <3>2. stored' = stored \o tail /\ tail' = <<entry>>
      BY <1>4, <3>1 DEF WriteThrough, Files
    <3>3. QED
      BY <1>1, <1>4, <3>2
  <2>2. QED
    BY <2>1, <2>1a DEF Durable!Next, Durable!Spill, Done
<1>5. CASE WriteFails
  <2>1a. UNCHANGED first
    BY <1>5 DEF WriteFails, WriteDone, lifeVars
  <2>1. UNCHANGED <<stored, tail>> /\ Done' > Done
    BY <1>1, <1>5 DEF WriteFails
  <2>2. QED
    BY <2>1, <2>1a DEF Durable!Next, Durable!PassOver, Done
<1>6. CASE OthersWrite
  <2>1. PICK n \in adrift \cup {0} : n \in Lines /\ stored' = Append(stored, n)
    BY <1>0, <1>6, OthersLine, Types
  <2>2. UNCHANGED <<tail, first, stage, taken>>
    BY <1>6 DEF OthersWrite, taskVars
  <2>3. n \in 0..first - 1
    <3>1. n \in Nat /\ first \in Nat \ {0} /\ \A k \in adrift : k < first
      BY <1>0, <2>1, LineTypes, LogdAssumption DEF Past, TypeOK
    <3>2. QED
      BY <2>1, <3>1
  <2>4. QED
    BY <2>1, <2>2, <2>3 DEF Durable!Next, Durable!Other
<1>7. CASE ~(Start \/ WriteBuffered \/ WriteThrough \/ WriteFails \/ OthersWrite)
  <2>1. Done' = Done /\ first' = first
    BY <1>1, <1>2a, <1>7
  <2>2. \/ UNCHANGED <<stored, tail>>
        \/ UNCHANGED stored /\ tail' = <<>>
        \/ stored' = stored \o tail /\ tail' = <<>>
    BY <1>0, <1>7, WrittenFrame DEF Written
  <2>3. QED
    BY <2>1, <2>2 DEF Durable!Next, Durable!Lose, Durable!Sync, Done
<1>8. QED
  BY <1>2, <1>3, <1>4, <1>5, <1>6, <1>7

\* To each process of logd its file is an append-only log with a volatile tail,
\* over any number of processes, those that write beside it included: a start, an
\* end, a crash or another writer never rewrites, repeats or takes away what is in
\* the file, and no entry of another process is taken for one of its own.
THEOREM AppendsOnlyHolds == Spec => AppendsOnly
BY RefineInit, RefineNext, Invariance, PTL DEF Spec, AppendsOnly, Durable!Spec

-----------------------------------------------------------------------------
(* The decoder of the code.                                                *)

\* logd holds nothing, in memory or on disk.
Silent == stage = "idle" /\ ring = <<>> /\ buffered = Empty /\ file = Empty /\ dropped = {}

\* Only a Forward that was decoded puts something there.
LEMMA SilentStep ==
  ASSUME "Forward" \notin Decoded, Queues, Queue, Silent, [Next]_vars
  PROVE  Silent'
<1> USE DEF vars, peerVars, taskVars, ringVars, fileVars, lifeVars, Silent
<1>1. ~TakeEntry
  <2>1. SUFFICES ASSUME TakeEntry PROVE FALSE
    OBVIOUS
  <2>2. chan # <<>> /\ Head(chan).type = "Forward"
    BY <2>1 DEF TakeEntry, Take
  <2>3. Forwards(chan) = {}
    BY DEF Queue
  <2>4. 1 \in 1..Len(chan) /\ chan[1].type = "Forward"
    BY <2>2 DEF Queues
  <2>5. QED
    BY <2>3, <2>4 DEF Forwards
<1>2. CASE Start
  BY <1>2 DEF Start
<1>3. CASE Bridge \/ Read \/ ReadEof
  BY <1>3 DEF Bridge, Acknowledge, Refuse, Forward, AskStop, Close, Read, ReadEof
<1>4. buffered["persist"] = <<>> /\ buffered["bootstrap"] = <<>>
  BY DEF Empty, Files
<1>5. FlushOk => file' = Empty /\ dropped' = {}
  <2>1. <<>> \o <<>> = <<>>
    BY ConcatEmptySeq, EmptySeq
  <2>2. QED
    BY <2>1 DEF FlushOk, Empty, Files
<1>6. FlushFails => file' = Empty /\ dropped' = {} /\ buffered' = Empty
  <2>1. [Empty EXCEPT !["persist"] = <<>>] = Empty
    BY DEF Empty, Files
  <2>2. Contents(<<>>) = {}
    BY DEF Contents
  <2>3. QED
    BY <1>4, <2>1, <2>2 DEF FlushFails
<1>7. CASE TakeAck \/ TakeReject \/ TakeClosed \/ ChannelEnded \/ Crash
  BY <1>7 DEF TakeAck, TakeReject, TakeClosed, ChannelEnded, Crash, Exit
<1>8. CASE TakeStop \/ FlushTick
  BY <1>5, <1>6, <1>8 DEF TakeStop, FlushTick, Exit
<1>9. CASE RegistrationTimeout \/ OthersWrite
  BY <1>9 DEF RegistrationTimeout, OthersWrite
<1>10. ~WriteLog
  BY DEF WriteLog, Evict, Push, WriteBuffered, WriteThrough, WriteFails, WriteDone
<1>11. CASE UNCHANGED vars
  BY <1>11
<1>12. QED
  BY <1>1, <1>2, <1>3, <1>7, <1>8, <1>9, <1>10, <1>11 DEF Next, Handle

\* decode_bridge_message refuses every Forward (message.rs:87), and so, however
\* many lives logd has and however much is forwarded to it, its ring, its
\* buffers and its files stay empty for ever: what Endures asks never happens.
THEOREM NothingStored ==
  ASSUME "Forward" \notin Decoded
  PROVE  Spec => []Silent
<1>1. Init => Silent
  BY DEF Init, Silent
<1>2. Inv /\ Silent /\ [Next]_vars => Silent'
  BY SilentStep, Types DEF Inv
<1>3. QED
  BY <1>1, <1>2, Invariance, PTL DEF Spec
=============================================================================
