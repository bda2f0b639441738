------------------------------ MODULE LiveLane ------------------------------
(***************************************************************************)
(* The live lane of the shifter view: collectors post records, the server  *)
(* numbers them, keeps the newest in a ring and offers each to the bounded *)
(* queue of every viewer, and the thread of a viewer sends the ring and    *)
(* then the queue to a page, which reconnects when it loses the stream.    *)
(*                                                                         *)
(* Every post and every viewer has a thread of its own.  The lock covers   *)
(* one number, or the ring and the list of viewers together; between the   *)
(* numbers, the ring and the queues any other thread may go on.            *)
(*                                                                         *)
(* Abstractions.  A record is its number; what the page cannot show in its *)
(* ring buffer, it has shown.  What a thread sends arrives at once, or not *)
(* at all: a row in the sockets is one still in the queue.  A missing row  *)
(* is reported, as a gap or in the count of dropped ones.                  *)
(***************************************************************************)
EXTENDS Integers, Sequences, FiniteSets

CONSTANTS
  Publisher,     \* threads that take posts
  BatchMax,      \* records in a post
  ReplayRows,    \* REPLAY_ROWS
  QueueMax,      \* CLIENT_QUEUE_MAX
  MaxRows,       \* bound: records ever posted
  MaxStreams,    \* bound: streams the page ever opens
  MaxBoots,      \* bound: starts of the server
  None           \* no stream

Boot   == 1 .. MaxBoots
Id     == 1 .. MaxRows
Stream == 1 .. MaxStreams
Job    == [to : Stream, id : Id]
Post   == [left : 0 .. BatchMax, ids : Seq(Id), jobs : Seq(Job), full : BOOLEAN]
Page   == [on : Stream \cup {None}, boot : 0 .. MaxBoots, seen : 0 .. MaxRows,
           shown : Seq(Boot \X Id), missing : SUBSET (Boot \X Id)]

ASSUME BoundsAssumption ==
  /\ BatchMax \in Nat \ {0} /\ ReplayRows \in Nat \ {0} /\ QueueMax \in Nat \ {0}
  /\ MaxRows \in Nat /\ MaxStreams \in Nat /\ MaxBoots \in Nat \ {0}
  /\ None \notin Nat

VARIABLES
  \* the server
  boot,      \* _epoch
  seq,       \* _seq
  ring,      \* _recent
  clients,   \* _clients
  post,      \* what each publisher is about
  \* per stream
  thread,    \* "new", "hello", "sending", "gone"
  backlog,   \* the copy of the ring still to be sent
  queue,
  dropped,   \* rows dropped from its queue
  \* the browser
  page,
  \* bounds and history
  rows,      \* records ever posted
  order,     \* the numbers of this boot as they came to the ring
  slipped,   \* rows given up between a full queue and an empty one
  buried     \* rows dropped before one with a lower number was queued

server  == <<boot, seq, ring, clients, order>>
streams == <<thread, backlog, queue, dropped, slipped, buried>>
vars    == <<server, post, streams, page, rows>>

Idle == [left |-> 0, ids |-> <<>>, jobs |-> <<>>, full |-> FALSE]

Elements(s) == {s[i] : i \in DOMAIN s}

-----------------------------------------------------------------------------
(***************************************************************************)
(* Publishers: publish and Client.offer.                                   *)
(***************************************************************************)
\* A collector posts n records.
Receive(p, n) ==
  /\ post[p] = Idle /\ rows + n <= MaxRows
  /\ post' = [post EXCEPT ![p].left = n] /\ rows' = rows + n
  /\ UNCHANGED <<server, streams, page>>

Number(p) ==
  /\ post[p].left > 0
  /\ seq' = seq + 1
  /\ post' = [post EXCEPT ![p].left = @ - 1, ![p].ids = Append(@, seq')]
  /\ UNCHANGED <<boot, ring, clients, order, streams, page, rows>>

\* The newest rows of s.
NewestOf(s) == SubSeq(s, IF Len(s) > ReplayRows THEN Len(s) - ReplayRows + 1 ELSE 1, Len(s))

\* Every row to the first viewer, then every row to the next.
JobsFor(ids, targets) ==
  [i \in 1 .. Len(ids) * Len(targets) |->
     [to |-> targets[(i - 1) \div Len(ids) + 1], id |-> ids[((i - 1) % Len(ids)) + 1]]]

\* The ring and the list of viewers, under the lock.
Extend(p) ==
  /\ post[p].left = 0 /\ post[p].ids # <<>>
  /\ ring' = NewestOf(ring \o post[p].ids)
  /\ order' = order \o post[p].ids
  /\ post' = [post EXCEPT ![p].ids = <<>>, ![p].jobs = JobsFor(post[p].ids, clients)]
  /\ UNCHANGED <<boot, seq, clients, streams, page, rows>>

Offered(p) == Head(post[p].jobs)

\* (mutant: a row too many fits)
HasRoomAtLimit(k) == Len(queue[k]) <= QueueMax
HasRoom(k)        == Len(queue[k]) < QueueMax

NextJob(p) == [post EXCEPT ![p].jobs = Tail(@), ![p].full = FALSE]

\* put_nowait takes the row; what is put into a queue without a thread is not looked at.
Offer(p) ==
  /\ post[p].jobs # <<>> /\ ~post[p].full
  /\ LET k == Offered(p).to  id == Offered(p).id IN
       \/ /\ thread[k] # "gone" /\ HasRoom(k)
          /\ queue' = [queue EXCEPT ![k] = Append(@, id)]
          /\ buried' = [buried EXCEPT ![k] = @ \cup {j \in dropped[k] : j > id}]
       \/ thread[k] = "gone" /\ UNCHANGED <<queue, buried>>
  /\ post' = NextJob(p)
  /\ UNCHANGED <<server, thread, backlog, dropped, slipped, page, rows>>

\* put_nowait raises Full.  (mutant: put, which waits for room)
WouldWait(p) == FALSE
Refused(p)   == ~HasRoom(Offered(p).to)

OfferFull(p) ==
  /\ post[p].jobs # <<>> /\ ~post[p].full
  /\ Refused(p)
  /\ post' = [post EXCEPT ![p].full = TRUE]
  /\ UNCHANGED <<server, streams, page, rows>>

\* get_nowait makes room by dropping the oldest row, and the row is offered again;
\* when the thread has emptied the queue meanwhile, the row is given up.
Evict(p) ==
  /\ post[p].jobs # <<>> /\ post[p].full
  /\ LET k == Offered(p).to IN
       \/ /\ queue[k] # <<>>
          /\ queue' = [queue EXCEPT ![k] = Tail(@)]
          /\ dropped' = [dropped EXCEPT ![k] = @ \cup {Head(queue[k])}]
          /\ post' = [post EXCEPT ![p].full = FALSE]
          /\ UNCHANGED slipped
       \/ /\ queue[k] = <<>>
          /\ slipped' = [slipped EXCEPT ![k] = IF thread[k] = "gone" THEN @
                                               ELSE @ \cup {Offered(p).id}]
          /\ post' = NextJob(p)
          /\ UNCHANGED <<queue, dropped>>
  /\ UNCHANGED <<server, thread, backlog, buried, page, rows>>

-----------------------------------------------------------------------------
(***************************************************************************)
(* Viewers: Handler.stream, and the page at its other end.                 *)
(***************************************************************************)
\* The page opens its stream: the ring is copied and the viewer listed under one lock.
Connect(k) ==
  /\ page.on = None /\ thread[k] = "new" /\ \A j \in 1 .. k - 1 : thread[j] # "new"
  /\ page' = [page EXCEPT !.on = k]
  /\ thread' = [thread EXCEPT ![k] = "hello"]
  /\ backlog' = [backlog EXCEPT ![k] = ring]
  /\ clients' = Append(clients, k)
  /\ UNCHANGED <<boot, seq, ring, order, post, queue, dropped, slipped, buried, rows>>

\* The page knows no row of a new boot.  (mutant: of any stream, or it keeps its number)
SeenAfresh == 0
SeenKept   == page.seen
SeenAfter  == IF page.boot = boot THEN page.seen ELSE 0

Hello(k) ==
  /\ thread[k] = "hello" /\ page.on = k
  /\ thread' = [thread EXCEPT ![k] = "sending"]
  /\ page' = [page EXCEPT !.seen = SeenAfter, !.boot = boot]
  /\ UNCHANGED <<server, post, backlog, queue, dropped, slipped, buried, rows>>

\* Numbers the page knows it has missed when it is sent id.
Missed(id) == IF page.seen = 0 THEN {} ELSE {<<boot, j>> : j \in page.seen + 1 .. id - 1}

\* onmessage: a number not above the highest is one the page has.
Message(id) ==
  IF id <= page.seen THEN page
  ELSE [page EXCEPT !.seen = id, !.shown = Append(@, <<boot, id>>),
                    !.missing = @ \cup Missed(id)]

SendBacklog(k) ==
  /\ thread[k] = "sending" /\ page.on = k
  /\ backlog[k] # <<>>
  /\ page' = Message(Head(backlog[k]))
  /\ backlog' = [backlog EXCEPT ![k] = Tail(@)]
  /\ UNCHANGED <<server, post, thread, queue, dropped, slipped, buried, rows>>

SendRow(k) ==
  /\ thread[k] = "sending" /\ page.on = k
  /\ backlog[k] = <<>> /\ queue[k] # <<>>
  /\ page' = Message(Head(queue[k]))
  /\ queue' = [queue EXCEPT ![k] = Tail(@)]
  /\ UNCHANGED <<server, post, thread, backlog, dropped, slipped, buried, rows>>

\* The network cuts the stream, or the page pauses or is hidden too long; the
\* number it has seen stays.
Cut ==
  /\ page.on # None
  /\ page' = [page EXCEPT !.on = None]
  /\ UNCHANGED <<server, post, streams, rows>>

\* clients without k, which is listed once.
Unlisted(k) ==
  IF k \notin Elements(clients) THEN clients
  ELSE LET i == CHOOSE i \in DOMAIN clients : clients[i] = k
       IN  SubSeq(clients, 1, i - 1) \o SubSeq(clients, i + 1, Len(clients))

\* A write to a page that has gone, a row's or a keepalive's, raises; a row the
\* thread took from its queue is gone with it.
Leave(k) ==
  /\ thread[k] \in {"hello", "sending"} /\ page.on # k
  /\ thread' = [thread EXCEPT ![k] = "gone"]
  /\ clients' = Unlisted(k)
  /\ backlog' = [backlog EXCEPT ![k] = <<>>] /\ queue' = [queue EXCEPT ![k] = <<>>]
  /\ dropped' = [dropped EXCEPT ![k] = {}] /\ slipped' = [slipped EXCEPT ![k] = {}]
  /\ buried' = [buried EXCEPT ![k] = {}]
  /\ UNCHANGED <<boot, seq, ring, order, post, page, rows>>

-----------------------------------------------------------------------------
\* The server ends and is started again: nothing of it is on disk.
Restart ==
  /\ boot < MaxBoots /\ boot' = boot + 1
  /\ seq' = 0 /\ ring' = <<>> /\ clients' = <<>> /\ order' = <<>>
  /\ post' = [p \in Publisher |-> Idle]
  /\ thread' = [k \in Stream |-> IF thread[k] = "new" THEN "new" ELSE "gone"]
  /\ backlog' = [k \in Stream |-> <<>>] /\ queue' = [k \in Stream |-> <<>>]
  /\ dropped' = [k \in Stream |-> {}] /\ slipped' = [k \in Stream |-> {}]
  /\ buried' = [k \in Stream |-> {}]
  /\ page' = [page EXCEPT !.on = None]
  /\ UNCHANGED rows

Init ==
  /\ boot = 1 /\ seq = 0 /\ ring = <<>> /\ clients = <<>> /\ order = <<>>
  /\ post = [p \in Publisher |-> Idle]
  /\ thread = [k \in Stream |-> "new"]
  /\ backlog = [k \in Stream |-> <<>>] /\ queue = [k \in Stream |-> <<>>]
  /\ dropped = [k \in Stream |-> {}] /\ slipped = [k \in Stream |-> {}]
  /\ buried = [k \in Stream |-> {}]
  /\ page = [on |-> None, boot |-> 0, seen |-> 0, shown |-> <<>>, missing |-> {}]
  /\ rows = 0

Publish(p) == Number(p) \/ Extend(p) \/ Offer(p) \/ OfferFull(p) \/ Evict(p)

View(k) == Hello(k) \/ SendBacklog(k) \/ SendRow(k) \/ Leave(k)

Next ==
  \/ \E p \in Publisher, n \in 1 .. BatchMax : Receive(p, n)
  \/ \E p \in Publisher : Publish(p)
  \/ \E k \in Stream : Connect(k) \/ View(k)
  \/ Cut \/ Restart

Spec == Init /\ [][Next]_vars

\* The threads of the posts run; nothing is assumed of viewers and the network.
FairSpec == Spec /\ \A p \in Publisher : WF_vars(Publish(p))

-----------------------------------------------------------------------------
TypeOK ==
  /\ boot \in Boot /\ seq \in 0 .. rows /\ rows \in 0 .. MaxRows
  /\ ring \in Seq(Id) /\ Len(ring) <= ReplayRows
  /\ order \in Seq(Id) /\ clients \in Seq(Stream)
  /\ post \in [Publisher -> Post]
  /\ thread \in [Stream -> {"new", "hello", "sending", "gone"}]
  /\ backlog \in [Stream -> Seq(Id)]
  /\ queue \in [Stream -> Seq(Id)] /\ \A k \in Stream : Len(queue[k]) <= QueueMax
  /\ dropped \in [Stream -> SUBSET Id] /\ slipped \in [Stream -> SUBSET Id]
  /\ buried \in [Stream -> SUBSET Id]
  /\ page \in Page

\* A page never shows a record twice, whatever ring it is sent again after a
\* reconnect (shifter.js: the number of the last row, kept until the boot changes).
NoRowTwice ==
  \A i, j \in DOMAIN page.shown : page.shown[i] = page.shown[j] => i = j

\* Nothing is on its way to the page.
Drained(k) ==
  /\ page.on = k /\ thread[k] = "sending"
  /\ backlog[k] = <<>> /\ queue[k] = <<>>
  /\ \A p \in Publisher : \A j \in Elements(post[p].jobs) : j.to # k

\* Rows of this boot the page has shown.
Shown == {s[2] : s \in {t \in Elements(page.shown) : t[1] = boot}}

\* Rows that came to the ring before one with a lower number.
Overtaking == {order[i] : i \in {h \in DOMAIN order :
                                   \E j \in DOMAIN order : h < j /\ order[j] < order[h]}}

\* A page with nothing on its way to it shows every record of this boot, or reports
\* it missing, from the first it showed: over reconnects, restarts and a queue that
\* overflows, no row falls between the ring and the queue.  Excepted is a row above
\* the last shown that two posts put out of order, or that found a full queue empty.
DrainedPageIsCurrent ==
  \A k \in Stream : Drained(k) =>
    \A id \in Elements(order) :
      \/ id \in Shown \/ <<boot, id>> \in page.missing
      \/ Shown # {} /\ \A s \in Shown : id < s
      \/ /\ id > page.seen
         /\ id \in Overtaking \cup buried[k] \/ \E s \in slipped[k] : s >= id

\* A post is answered though no viewer reads: a slow viewer never holds a collector
\* up (Client.offer drops rather than waits).
EveryPostEnds == \A p \in Publisher : (post[p] # Idle) ~> (post[p] = Idle)
=============================================================================
