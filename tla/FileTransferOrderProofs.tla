----------------------- MODULE FileTransferOrderProofs -----------------------
(***************************************************************************)
(* Proof that the worker's events follow submission order                 *)
(* (EventsFollowSubmissionOrder) for every value of the constants.        *)
(*                                                                         *)
(* The property speaks of the log of sent events only, and is not          *)
(* inductive: whether the next send keeps it depends on the id of the     *)
(* command the worker holds and on those still queued.  OrderInv relates  *)
(* the ghost ids of the log, of the command in hand and of the command    *)
(* channel: ids are given in submission order, the channel is FIFO, and   *)
(* the command in hand has sent no outcome event yet.                      *)
(***************************************************************************)
EXTENDS FileTransferProofs, SequenceTheorems

OrderInv ==
    /\ cur.id <= submitted
    /\ \A k \in DOMAIN cmd_chan : cur.id < cmd_chan[k].id /\ cmd_chan[k].id <= submitted
    /\ \A k, l \in DOMAIN cmd_chan : k < l => cmd_chan[k].id < cmd_chan[l].id
    /\ \A i \in DOMAIN sent :
          /\ sent[i].id <= submitted
          /\ \A k \in DOMAIN cmd_chan : sent[i].id < cmd_chan[k].id
          /\ wpc # "idle" =>
                \/ sent[i].id < cur.id
                \/ sent[i].id = cur.id /\ sent[i].ev.kind \notin FinalKinds
    /\ EventsFollowSubmissionOrder

OInv == IInv /\ OrderInv

LEMMA InitOInv == Init => OInv
<1> SUFFICES ASSUME Init PROVE OInv
  OBVIOUS
<1>1. IInv
  BY InitIInv
<1>2. OrderInv
  BY DEF Init, OrderInv, EventsFollowSubmissionOrder, NoCmd
<1>3. QED
  BY <1>1, <1>2 DEF OInv

(* A step that moves no command and sends nothing, and keeps the worker  *)
(* idle or busy, keeps OrderInv.                                            *)
LEMMA QuietStep ==
    ASSUME OrderInv,
           UNCHANGED <<cur, cmd_chan, sent, submitted>>,
           (wpc' = "idle") <=> (wpc = "idle")
    PROVE  OrderInv'
BY DEF OrderInv, EventsFollowSubmissionOrder

LEMMA NextOInv == OInv /\ [Next]_vars => OInv'
<1> SUFFICES ASSUME OInv, [Next]_vars PROVE OInv'
  OBVIOUS
<1> USE ConstAssumption
<1>0. IInv'
  BY NextIInv DEF OInv
<1> SUFFICES OrderInv'
  BY <1>0 DEF OInv
<1>a. /\ cur \in Tagged \cup {NoCmd} /\ cur.id \in 0..MaxCmds
      /\ cmd_chan \in Seq(Tagged) /\ sent \in Seq(SentEntry)
      /\ submitted \in 0..MaxCmds /\ wpc \in WorkerPcs
      /\ OrderInv
  BY DEF OInv, IInv, TypeOK, Tagged, NoCmd, SentEntry
<1>b. /\ \A k \in DOMAIN cmd_chan : cmd_chan[k].id \in 1..MaxCmds
      /\ \A i \in DOMAIN sent : sent[i].id \in 1..MaxCmds
  <2>1. /\ \A k \in DOMAIN cmd_chan : cmd_chan[k] \in Tagged
        /\ \A i \in DOMAIN sent : sent[i] \in SentEntry
    BY <1>a
  <2>2. QED
    BY <2>1 DEF Tagged, SentEntry
<1>1. ASSUME NEW c \in Command, Submit(c) PROVE OrderInv'
  <2> DEFINE t == [id |-> submitted + 1, cmd |-> c]
  <2>1. t \in Tagged /\ t.id = submitted + 1
    BY <1>1, <1>a DEF Submit, Tagged
  <2>2. /\ cmd_chan' = Append(cmd_chan, t)
        /\ submitted' = submitted + 1
        /\ UNCHANGED <<cur, sent, wpc>>
    BY <1>1 DEF Submit
  <2>3. /\ Len(cmd_chan') = Len(cmd_chan) + 1
        /\ \A k \in 1..Len(cmd_chan) : cmd_chan'[k] = cmd_chan[k]
        /\ cmd_chan'[Len(cmd_chan) + 1] = t
        /\ DOMAIN cmd_chan' = 1..Len(cmd_chan) + 1
        /\ DOMAIN cmd_chan = 1..Len(cmd_chan)
    BY <1>a, <2>1, <2>2, AppendProperties
  <2>4. \A k \in DOMAIN cmd_chan' :
          cur.id < cmd_chan'[k].id /\ cmd_chan'[k].id <= submitted + 1
    BY <1>a, <1>b, <2>1, <2>3 DEF OrderInv
  <2>5. \A k, l \in DOMAIN cmd_chan' : k < l => cmd_chan'[k].id < cmd_chan'[l].id
    BY <1>a, <1>b, <2>1, <2>3 DEF OrderInv
  <2>6. \A i \in DOMAIN sent, k \in DOMAIN cmd_chan' : sent[i].id < cmd_chan'[k].id
    BY <1>a, <1>b, <2>1, <2>3 DEF OrderInv
  <2>7. QED
    BY <1>a, <1>b, <2>2, <2>4, <2>5, <2>6 DEF OrderInv, EventsFollowSubmissionOrder
<1>2. ASSUME NEW p \in IngestPairs, StoreFileData(p[1], p[2]) PROVE OrderInv'
  BY <1>2, <1>a, QuietStep DEF StoreFileData
<1>3. ASSUME NEW mx \in DrainMax, Drain(mx) PROVE OrderInv'
  BY <1>3, <1>a, QuietStep DEF Drain
<1>4. CASE Recv
  <2>1. cmd_chan # <<>> /\ wpc = "idle"
    BY <1>4 DEF Recv
  <2>2. /\ cur' = Head(cmd_chan) /\ cmd_chan' = Tail(cmd_chan)
        /\ wpc' \in {"lookup", "upload"}
        /\ UNCHANGED <<sent, submitted>>
    BY <1>4 DEF Recv
  <2>3. /\ Head(cmd_chan) = cmd_chan[1] /\ 1 \in DOMAIN cmd_chan
        /\ Len(Tail(cmd_chan)) = Len(cmd_chan) - 1
        /\ DOMAIN Tail(cmd_chan) = 1..Len(cmd_chan) - 1
        /\ \A i \in 1..Len(Tail(cmd_chan)) : Tail(cmd_chan)[i] = cmd_chan[i + 1]
        /\ DOMAIN cmd_chan = 1..Len(cmd_chan)
    BY <1>a, <2>1, HeadTailProperties
  <2>4. cur'.id <= submitted'
    BY <1>a, <2>2, <2>3 DEF OrderInv
  <2>5. \A k \in DOMAIN cmd_chan' :
          cur'.id < cmd_chan'[k].id /\ cmd_chan'[k].id <= submitted'
    BY <1>a, <1>b, <2>2, <2>3 DEF OrderInv
  <2>6. \A k, l \in DOMAIN cmd_chan' : k < l => cmd_chan'[k].id < cmd_chan'[l].id
    BY <1>a, <1>b, <2>2, <2>3 DEF OrderInv
  <2>7. \A i \in DOMAIN sent' :
          /\ \A k \in DOMAIN cmd_chan' : sent'[i].id < cmd_chan'[k].id
          /\ sent'[i].id < cur'.id
    BY <1>a, <1>b, <2>2, <2>3 DEF OrderInv
  <2>8. QED
    BY <1>a, <2>2, <2>4, <2>5, <2>6, <2>7 DEF OrderInv, EventsFollowSubmissionOrder
<1>5. CASE UploadFile
  BY <1>5, <1>a, QuietStep DEF UploadFile
<1>6. CASE Backoff
  BY <1>6, <1>a, QuietStep DEF Backoff
<1>7. CASE Lookup
  BY <1>7, <1>a, QuietStep DEF Lookup
<1>8. CASE Write
  BY <1>8, <1>a, QuietStep DEF Write
<1>9. CASE Record
  BY <1>9, <1>a, QuietStep DEF Record
<1>10. CASE SendAttempt
  <2> DEFINE e == [id |-> cur.id, ev |-> outbox]
  <2>1. /\ wpc = "send_attempt" /\ cur \in Tagged
        /\ outbox \in Event /\ outbox.kind = "DownloadAttempt"
    BY <1>10, AttemptEventSnap DEF SendAttempt, OInv, IInv, TypeOK,
                                   WorkerStateConsistent
  <2>2. e \in SentEntry /\ e.id = cur.id /\ e.ev.kind \notin FinalKinds
    BY <2>1 DEF SentEntry, Tagged, FinalKinds
  <2>3. /\ sent' = Append(sent, e)
        /\ wpc' \in {"send_final", "backoff"}
        /\ UNCHANGED <<cur, cmd_chan, submitted>>
    BY <1>10, Zenon DEF SendAttempt, Send
  <2>4. /\ Len(sent') = Len(sent) + 1
        /\ \A i \in 1..Len(sent) : sent'[i] = sent[i]
        /\ sent'[Len(sent) + 1] = e
        /\ DOMAIN sent' = 1..Len(sent) + 1
        /\ DOMAIN sent = 1..Len(sent)
    BY <1>a, <2>2, <2>3, AppendProperties
  <2>5. \A i \in DOMAIN sent' :
          /\ sent'[i].id <= submitted'
          /\ \A k \in DOMAIN cmd_chan' : sent'[i].id < cmd_chan'[k].id
          /\ \/ sent'[i].id < cur'.id
             \/ sent'[i].id = cur'.id /\ sent'[i].ev.kind \notin FinalKinds
    BY <1>a, <1>b, <2>1, <2>2, <2>3, <2>4 DEF OrderInv
  <2>6. EventsFollowSubmissionOrder'
    BY <1>a, <1>b, <2>1, <2>2, <2>3, <2>4 DEF OrderInv, EventsFollowSubmissionOrder
  <2>7. QED
    BY <1>a, <2>3, <2>5, <2>6 DEF OrderInv
<1>11. CASE SendFinal
  <2> DEFINE e == [id |-> cur.id, ev |-> outbox]
  <2>1. /\ wpc = "send_final" /\ cur \in Tagged /\ outbox \in Event
    BY <1>11 DEF SendFinal, OInv, IInv, TypeOK, WorkerStateConsistent,
                 FinalKinds, NoEvent
  <2>2. e \in SentEntry /\ e.id = cur.id
    BY <2>1 DEF SentEntry, Tagged
  <2>3. /\ sent' = Append(sent, e)
        /\ wpc' = "idle" /\ cur' = NoCmd
        /\ UNCHANGED <<cmd_chan, submitted>>
    BY <1>11 DEF SendFinal, Send, ToIdle
  <2>4. /\ Len(sent') = Len(sent) + 1
        /\ \A i \in 1..Len(sent) : sent'[i] = sent[i]
        /\ sent'[Len(sent) + 1] = e
        /\ DOMAIN sent' = 1..Len(sent) + 1
        /\ DOMAIN sent = 1..Len(sent)
    BY <1>a, <2>2, <2>3, AppendProperties
  <2>5. cur'.id = 0
    BY <2>3 DEF NoCmd
  <2>6. \A i \in DOMAIN sent' :
          /\ sent'[i].id <= submitted'
          /\ \A k \in DOMAIN cmd_chan' : sent'[i].id < cmd_chan'[k].id
    BY <1>a, <1>b, <2>1, <2>2, <2>3, <2>4 DEF OrderInv
  <2>7. EventsFollowSubmissionOrder'
    BY <1>a, <1>b, <2>1, <2>2, <2>3, <2>4 DEF OrderInv, EventsFollowSubmissionOrder
  <2>8. QED
    BY <1>a, <1>b, <2>3, <2>5, <2>6, <2>7 DEF OrderInv
<1>12. CASE UNCHANGED vars
  BY <1>12, <1>a, QuietStep DEF vars
<1>13. QED
  BY <1>1, <1>2, <1>3, <1>4, <1>5, <1>6, <1>7, <1>8, <1>9, <1>10, <1>11, <1>12
     DEF Next, Worker

(* Whatever the constants, the events the worker sends belong to commands *)
(* in the order they were submitted, the events of one command are never *)
(* interleaved with another's, and nothing of a command is sent after its *)
(* outcome event: run_file_transfer_service handles the FIFO command       *)
(* channel one command at a time.                                           *)
THEOREM EventsInSubmissionOrder == Spec => []EventsFollowSubmissionOrder
<1>1. Spec => []OInv
  BY InitOInv, NextOInv, PTL DEF Spec
<1>2. QED
  BY <1>1, PTL DEF OInv, OrderInv

=============================================================================
