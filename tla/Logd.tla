-------------------------------- MODULE Logd --------------------------------
(***************************************************************************)
(* logd (daemons/system_core/logd/src/main.rs) at the end of the Bridge's  *)
(* forward: a socket, a reader task that feeds an mpsc channel, and the    *)
(* main task, which keeps the last entries in a ring in memory and appends *)
(* each entry to a file through a BufWriter.                               *)
(*                                                                         *)
(* The n-th message ever forwarded is the number n, and Total[n] is the    *)
(* serialized size of the first n together, so that the size of a stretch  *)
(* of entries is a difference.                                             *)
(*                                                                         *)
(* The files outlive the processes of logd and are opened for append by    *)
(* each.  Several of them may be there at once: the Bridge may start a     *)
(* second one (module Bridge), and the logd of a Bridge that died writes   *)
(* on while the next Bridge starts its own.  The module follows one of     *)
(* them at a time, which may be any: the others are what they append to    *)
(* the file in between (OthersWrite).  A life is one process that is       *)
(* followed, with its connection.  A line is appended whole: that of two   *)
(* processes mixing within a line is left out.                             *)
(***************************************************************************)
EXTENDS Naturals, Sequences, FiniteSets

CONSTANTS
  MaxEntries,  \* bound on the messages forwarded
  MaxLives,    \* bound on the processes of logd that are followed
  MaxOthers,   \* bound on the entries of those that never are
  Total,       \* Total[n]: bytes of the entries 1..n
  RingMax,     \* RING_BUFFER_MAX_BYTES
  SockCap,     \* frames the socket holds, and one the reader holds
  ChanCap,     \* capacity of the mpsc channel
  Decoded      \* the kinds of frame that decode_bridge_message accepts (see Decode)

ASSUME LogdAssumption ==
  /\ MaxEntries \in Nat /\ MaxLives \in Nat /\ MaxOthers \in Nat /\ RingMax \in Nat
  /\ SockCap \in Nat \ {0} /\ ChanCap \in Nat \ {0}
  /\ Total \in [0..MaxEntries -> Nat]
  /\ \A m, n \in 0..MaxEntries : m < n => Total[m] < Total[n]
  /\ {"Ack", "Reject", "Stop"} \subseteq Decoded
  /\ Decoded \subseteq {"Ack", "Reject", "Stop", "Forward"}

Entries == 1..MaxEntries
\* Those of the files: 0 is any entry of a process that was never followed.
Lines == Entries \cup {0}
Size(n) == Total[n] - Total[n - 1]

\* BridgeMessage, and ReaderEvent::Closed.
Frames == [type : {"Ack", "Reject", "Stop", "Forward", "Closed"}, entry : 0..MaxEntries]
Command(t) == [type |-> t, entry |-> 0]
Files == {"persist", "bootstrap"}

VARIABLES
  \* the Bridge's end
  lives,       \* connections so far
  peer,        \* what the Bridge has done with this one
  sent,        \* messages forwarded so far
  sock,        \* frames written and not read
  \* the reader task
  reader,      \* it reads, or it has ended
  chan,        \* the channel
  \* the main task
  main,        \* the process
  waiting,     \* it waits for the acknowledgement
  stage,       \* where it is in write_log
  entry,       \* the entry in write_log
  registered,  \* Logd.registered
  ring,        \* Logd.ring_buffer
  bytes,       \* Logd.ring_buffer_bytes
  \* the files
  buffered,    \* buffered[f]: what the BufWriter of f holds
  file,        \* file[f]: what the file system was given
  \* history, read by no action
  first,       \* the first entry of this life
  taken,       \* the last entry that main took
  dropped,     \* entries that an input/output error kept out of a file
  \* the processes that were followed before this one
  adrift       \* what those that still run may still write

peerVars  == <<lives, peer, sent>>
taskVars  == <<waiting, stage, entry, registered>>
ringVars  == <<ring, bytes>>
fileVars  == <<buffered, file, dropped>>
lifeVars  == <<first, taken, adrift>>
vars == <<peerVars, sock, reader, chan, main, taskVars, ringVars, fileVars, lifeVars>>

TypeOK ==
  /\ lives \in 0..MaxLives
  /\ peer \in {"none", "registering", "serving", "closed"}
  /\ sent \in 0..MaxEntries
  /\ sock \in Seq(Frames)
  /\ reader \in {"reading", "done"}
  /\ chan \in Seq(Frames)
  /\ main \in {"off", "up", "ended", "stopped", "rejected", "crashed"}
  /\ waiting \in BOOLEAN
  /\ stage \in {"idle", "evict", "append"}
  /\ entry \in 0..MaxEntries
  /\ registered \in BOOLEAN
  /\ ring \in Seq(Entries)
  /\ bytes \in Nat
  /\ buffered \in [Files -> Seq(Lines)]
  /\ file \in [Files -> Seq(Lines)]
  /\ first \in 1..MaxEntries + 1
  /\ taken \in 0..MaxEntries
  /\ dropped \in SUBSET Lines
  /\ adrift \in SUBSET Entries

Empty == [f \in Files |-> <<>>]

Init ==
  /\ lives = 0 /\ peer = "none" /\ sent = 0 /\ sock = <<>>
  /\ reader = "done" /\ chan = <<>>
  /\ main = "off" /\ waiting = FALSE /\ stage = "idle" /\ entry = 0 /\ registered = FALSE
  /\ ring = <<>> /\ bytes = 0
  /\ buffered = Empty /\ file = Empty
  /\ first = 1 /\ taken = 0 /\ dropped = {} /\ adrift = {}

-----------------------------------------------------------------------------
(* The start of a life: the files are opened for append, the connection is *)
(* made, Register is sent.                                                 *)

Contents(s) == {s[i] : i \in DOMAIN s}

\* The entries that the process has not written yet, those on their way to it
\* included.
Held ==
  LET onTheWay == {f \in Contents(chan) \cup Contents(sock) : f.type = "Forward"}
  IN (Contents(buffered["persist"]) \cup {entry} \cup {f.entry : f \in onTheWay}) \ {0}

\* Nothing holds the start back while another process of logd is up: that one
\* goes on beside it.
Start ==
  /\ lives < MaxLives
  /\ adrift' = IF main = "up" THEN adrift \cup Held ELSE adrift
  /\ lives' = lives + 1
  /\ peer' = "registering" /\ sock' = <<>>
  /\ reader' = "reading" /\ chan' = <<>>
  /\ main' = "up" /\ waiting' = TRUE /\ stage' = "idle" /\ entry' = 0 /\ registered' = FALSE
  /\ ring' = <<>> /\ bytes' = 0 /\ buffered' = Empty
  /\ first' = sent + 1 /\ taken' = sent
  /\ UNCHANGED <<sent, file, dropped>>

-----------------------------------------------------------------------------
(* The Bridge.                                                             *)

\* The acknowledgement is written, then the write half is stored: only then
\* can a handler forward to logd.
Acknowledge ==
  /\ peer = "registering"
  /\ peer' = "serving"
  /\ sock' = Append(sock, Command("Ack"))
  /\ UNCHANGED <<lives, sent, reader, chan, main, taskVars, ringVars, fileVars, lifeVars>>

Refuse ==
  /\ peer = "registering"
  /\ peer' = "closed"
  /\ sock' = Append(sock, Command("Reject"))
  /\ UNCHANGED <<lives, sent, reader, chan, main, taskVars, ringVars, fileVars, lifeVars>>

\* The forward of a daemon's message.
Forward ==
  /\ peer = "serving" /\ main = "up" /\ Len(sock) < SockCap /\ sent < MaxEntries
  /\ sent' = sent + 1
  /\ sock' = Append(sock, [type |-> "Forward", entry |-> sent + 1])
  /\ UNCHANGED <<lives, peer, reader, chan, main, taskVars, ringVars, fileVars, lifeVars>>

\* BridgeMessage::Stop or Restart.  logd serves them; this Bridge sends neither.
AskStop ==
  /\ peer = "serving" /\ main = "up" /\ Len(sock) < SockCap
  /\ sock' = Append(sock, Command("Stop"))
  /\ UNCHANGED <<peerVars, reader, chan, main, taskVars, ringVars, fileVars, lifeVars>>

\* The Bridge ends, or the registration of another process takes the place of
\* this one's write half; what was written is still to be read.
Close ==
  /\ peer \in {"registering", "serving"}
  /\ peer' = "closed"
  /\ UNCHANGED <<lives, sent, sock, reader, chan, main, taskVars, ringVars, fileVars, lifeVars>>

-----------------------------------------------------------------------------
(* The reader task of connect_to_bridge.                                   *)

\* BridgeMessage and DaemonMessage both carry their variant in a field "type",
\* and Forward holds a DaemonMessage without a field name: its frame has that
\* field twice, which the decoder refuses.  So Decoded is {"Ack", "Reject",
\* "Stop"} in this code, and holds "Forward" too once that is mended.
Decode(f) == IF f.type \in Decoded THEN <<f>> ELSE <<>>

\* A line that does not decode is skipped without a word.
Read ==
  /\ main = "up" /\ reader = "reading" /\ sock # <<>> /\ Len(chan) < ChanCap
  /\ sock' = Tail(sock)
  /\ chan' = chan \o Decode(Head(sock))
  /\ UNCHANGED <<peerVars, reader, main, taskVars, ringVars, fileVars, lifeVars>>

ReadEof ==
  /\ main = "up" /\ reader = "reading" /\ sock = <<>> /\ peer = "closed" /\ Len(chan) < ChanCap
  /\ reader' = "done"
  /\ chan' = Append(chan, Command("Closed"))
  /\ UNCHANGED <<peerVars, sock, main, taskVars, ringVars, fileVars, lifeVars>>

-----------------------------------------------------------------------------
(* main and handle_bridge_message.                                         *)

\* recv returns an event of type t.
Take(t) ==
  /\ main = "up" /\ stage = "idle"
  /\ chan # <<>> /\ Head(chan).type = t
  /\ chan' = Tail(chan)

\* What the BufWriters hold is gone with the process.
Exit(how) == main' = how /\ buffered' = Empty

\* Mutant: the flag is not set.
TakeAckUnflagged ==
  /\ Take("Ack")
  /\ waiting' = FALSE
  /\ UNCHANGED <<peerVars, sock, reader, main, stage, entry, registered, ringVars, fileVars, lifeVars>>

TakeAck ==
  /\ Take("Ack")
  /\ registered' = TRUE
  /\ waiting' = FALSE
  /\ UNCHANGED <<peerVars, sock, reader, main, stage, entry, ringVars, fileVars, lifeVars>>

TakeReject ==
  /\ Take("Reject")
  /\ Exit("rejected")
  /\ UNCHANGED <<peerVars, sock, reader, taskVars, ringVars, file, dropped, lifeVars>>

\* flush, without an error or with one that loses what persist_writer held.
FlushOk == file' = [f \in Files |-> file[f] \o buffered[f]] /\ UNCHANGED dropped
FlushFails ==
  /\ buffered' = [buffered EXCEPT !["persist"] = <<>>]
  /\ dropped' = dropped \cup Contents(buffered["persist"])
  /\ UNCHANGED file

\* Mutant: exit without the flush.
TakeStopUnflushed ==
  /\ Take("Stop")
  /\ Exit("stopped")
  /\ UNCHANGED <<peerVars, sock, reader, taskVars, ringVars, file, dropped, lifeVars>>

\* shutdown, then exit.  When the Shutdown cannot be sent or the flush fails
\* the error returns before the exit, and the loop goes on.
TakeStop ==
  /\ Take("Stop")
  /\ \/ peer = "serving" /\ FlushOk /\ Exit("stopped")
     \/ peer = "serving" /\ FlushFails /\ UNCHANGED main
     \/ peer = "closed" /\ UNCHANGED <<main, fileVars>>
  /\ UNCHANGED <<peerVars, sock, reader, taskVars, ringVars, lifeVars>>

\* Forward: ingest_daemon_message makes the message an entry.
TakeEntry ==
  /\ Take("Forward")
  /\ entry' = Head(chan).entry /\ taken' = entry' /\ stage' = "evict"
  /\ UNCHANGED <<peerVars, sock, reader, main, waiting, registered, ringVars, fileVars, first, adrift>>

\* The end of the connection ends the wait, or the loop.
TakeClosed ==
  /\ Take("Closed")
  /\ IF waiting THEN waiting' = FALSE /\ UNCHANGED <<main, buffered>>
                ELSE Exit("ended") /\ UNCHANGED waiting
  /\ UNCHANGED <<peerVars, sock, reader, stage, entry, registered, ringVars, file, dropped, lifeVars>>

\* Mutant: the end of the channel is not an end of the loop.
ChannelEndedIgnored ==
  /\ main = "up" /\ stage = "idle" /\ ~waiting /\ reader = "done" /\ chan = <<>>
  /\ UNCHANGED vars

\* recv returns None: the reader has ended and Closed was taken by the wait.
ChannelEnded ==
  /\ main = "up" /\ stage = "idle" /\ ~waiting /\ reader = "done" /\ chan = <<>>
  /\ Exit("ended")
  /\ UNCHANGED <<peerVars, sock, reader, chan, taskVars, ringVars, file, dropped, lifeVars>>

\* REGISTRATION_TIMEOUT_MS: what the wait was doing is cancelled.
RegistrationTimeout ==
  /\ main = "up" /\ waiting
  /\ waiting' = FALSE /\ stage' = "idle" /\ entry' = 0
  /\ UNCHANGED <<peerVars, sock, reader, chan, main, registered, ringVars, fileVars, lifeVars>>

\* Mutants: the buffer is written and kept; only the bootstrap file is flushed.
FlushTickTwice ==
  /\ main = "up" /\ ~waiting /\ stage = "idle"
  /\ FlushOk
  /\ UNCHANGED <<peerVars, sock, reader, chan, main, taskVars, ringVars, buffered, lifeVars>>
FlushTickBootstrap ==
  /\ main = "up" /\ ~waiting /\ stage = "idle"
  /\ file' = [file EXCEPT !["bootstrap"] = @ \o buffered["bootstrap"]]
  /\ buffered' = [buffered EXCEPT !["bootstrap"] = <<>>]
  /\ UNCHANGED <<peerVars, sock, reader, chan, main, taskVars, ringVars, dropped, lifeVars>>

FlushTick ==
  /\ main = "up" /\ ~waiting /\ stage = "idle"
  /\ \/ FlushOk /\ buffered' = Empty
     \/ FlushFails
  /\ UNCHANGED <<peerVars, sock, reader, chan, main, taskVars, ringVars, lifeVars>>

\* The process is killed.
Crash ==
  /\ main = "up"
  /\ Exit("crashed")
  /\ UNCHANGED <<peerVars, sock, reader, chan, taskVars, ringVars, file, dropped, lifeVars>>

-----------------------------------------------------------------------------
(* write_log.                                                              *)

Fits == bytes + Size(entry) <= RingMax

\* Mutant: the size of the new entry is given back, not that of the old one.
EvictNewSize ==
  /\ main = "up" /\ stage = "evict" /\ ~Fits /\ ring # <<>>
  /\ ring' = Tail(ring)
  /\ bytes' = bytes - Size(entry)
  /\ UNCHANGED <<peerVars, sock, reader, chan, main, taskVars, fileVars, lifeVars>>

\* One turn of the eviction; the subtraction saturates.
Evict ==
  /\ main = "up" /\ stage = "evict" /\ ~Fits /\ ring # <<>>
  /\ ring' = Tail(ring)
  /\ bytes' = IF bytes >= Size(Head(ring)) THEN bytes - Size(Head(ring)) ELSE 0
  /\ UNCHANGED <<peerVars, sock, reader, chan, main, taskVars, fileVars, lifeVars>>

Push ==
  /\ main = "up" /\ stage = "evict" /\ (Fits \/ ring = <<>>)
  /\ ring' = Append(ring, entry)
  /\ bytes' = bytes + Size(entry)
  /\ stage' = "append"
  /\ UNCHANGED <<peerVars, sock, reader, chan, main, waiting, entry, registered, fileVars, lifeVars>>

Target == IF registered THEN "persist" ELSE "bootstrap"

WriteDone ==
  /\ main = "up" /\ stage = "append"
  /\ stage' = "idle" /\ entry' = 0
  /\ UNCHANGED <<peerVars, sock, reader, chan, main, waiting, registered, ringVars, lifeVars>>

\* The BufWriter has room.
WriteBuffered ==
  /\ WriteDone
  /\ buffered' = [buffered EXCEPT ![Target] = Append(@, entry)]
  /\ UNCHANGED <<file, dropped>>

\* Mutant: a full buffer is overwritten.
WriteThroughLost ==
  /\ WriteDone
  /\ buffered' = [buffered EXCEPT ![Target] = <<entry>>]
  /\ UNCHANGED <<file, dropped>>

\* It has not, and writes what it holds first.
WriteThrough ==
  /\ WriteDone
  /\ file' = [file EXCEPT ![Target] = @ \o buffered[Target]]
  /\ buffered' = [buffered EXCEPT ![Target] = <<entry>>]
  /\ UNCHANGED dropped

\* That write fails: the entry is in the ring only.
WriteFails ==
  /\ WriteDone
  /\ dropped' = dropped \cup {entry}
  /\ UNCHANGED <<buffered, file>>

-----------------------------------------------------------------------------
(* The other processes of logd.                                            *)

\* One that was left running writes, through or with a flush, an entry that it
\* held or (0) one that reached it since; or one that was never followed does.
\* None of them has anything to write if no Forward decodes.
OthersWrite ==
  /\ "Forward" \in Decoded
  /\ \E n \in adrift \cup {0} :
       /\ n = 0 => Cardinality({i \in DOMAIN file["persist"] : file["persist"][i] = 0}) < MaxOthers
       /\ file' = [file EXCEPT !["persist"] = Append(@, n)]
       /\ adrift' = adrift \ {n}
  /\ UNCHANGED <<peerVars, sock, reader, chan, main, taskVars, ringVars, buffered, dropped, first, taken>>

-----------------------------------------------------------------------------
Bridge == Acknowledge \/ Refuse \/ Forward \/ AskStop \/ Close
Handle == TakeAck \/ TakeReject \/ TakeStop \/ TakeEntry \/ TakeClosed \/ ChannelEnded
WriteLog == Evict \/ Push \/ WriteBuffered \/ WriteThrough \/ WriteFails

Next ==
  \/ Start \/ Bridge \/ Read \/ ReadEof \/ Handle \/ RegistrationTimeout \/ FlushTick \/ Crash \/ WriteLog
  \/ OthersWrite

Spec == Init /\ [][Next]_vars

\* Fairness.  The runtime polls the reader and the main task; the wait ends at
\* its timeout; select! picks at random between a flush that is due and an
\* event, so each is taken if it is ready again and again.
Fairness ==
  /\ WF_vars(Read \/ ReadEof) /\ WF_vars(RegistrationTimeout) /\ WF_vars(WriteLog)
  /\ SF_vars(Handle) /\ SF_vars(FlushTick)

FairSpec == Spec /\ Fairness

-----------------------------------------------------------------------------
(* Properties.                                                             *)

\* ring_buffer_bytes is the size of what the ring holds, the saturating
\* subtraction never saturates, the ring is the latest stretch of the log, and it
\* is over RING_BUFFER_MAX_BYTES only with a single entry that is itself larger.
Last(s) == s[Len(s)]
RingAccounted ==
  /\ \A i \in 1..Len(ring) : ring[i] = ring[1] + i - 1
  /\ bytes = IF ring = <<>> THEN 0 ELSE Total[Last(ring)] - Total[ring[1] - 1]
  /\ bytes <= RingMax \/ Len(ring) = 1
  /\ ring # <<>> => Last(ring) = IF stage = "evict" THEN taken - 1 ELSE taken

\* An entry that a process of logd took is in the file, in the buffer, in hand or
\* known to be lost to an error: once, and in the order in which the process took
\* them, whatever other processes write to the same file in between.
Written == file["persist"] \o buffered["persist"]
Kept ==
  main = "up" =>
    /\ \A n \in first..taken : n \in Contents(Written) \cup dropped \cup {entry}
    /\ \A i, j \in 1..Len(Written) :
         i < j /\ Written[i] >= first /\ Written[j] >= first => Written[i] < Written[j]

\* No entry is written before the acknowledgement: the bootstrap file, kept for
\* "genuine early-boot logs", stays empty, and the registration timeout never
\* cancels a write_log.  It rests on the Bridge acknowledging before it forwards.
BootstrapEmpty ==
  /\ \A f \in {file, buffered} : f["bootstrap"] = <<>>
  /\ waiting => stage = "idle"

\* A shutdown that was asked for loses nothing.
StopKeeps ==
  main = "stopped" => \A n \in first..taken : n \in Contents(file["persist"]) \cup dropped

\* logd implements an append-only log with a volatile tail, beside whatever else
\* appends to its file.  An entry in hand is not accepted yet; what goes to the
\* bootstrap file is passed over.
Durable == INSTANCE AppendLog WITH
  stored <- file["persist"],
  tail <- buffered["persist"],
  last <- IF stage = "idle" THEN taken ELSE taken - 1,
  since <- first
AppendsOnly == Durable!Spec

\* What was forwarded to the process that is followed gets to the file while it
\* lives and is followed.
Endures ==
  \A n \in Entries :
    (main = "up" /\ n \in first..sent)
      ~> (main # "up" \/ n < first \/ n \in Contents(file["persist"]) \cup dropped)

\* logd does not outlive its Bridge, whenever the connection ends.
EndsWithBridge ==
  \A l \in 1..MaxLives : (lives = l /\ main = "up" /\ peer = "closed") ~> (main # "up" \/ lives # l)
=============================================================================
