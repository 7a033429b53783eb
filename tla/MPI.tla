-------------------------------- MODULE MPI ---------------------------------
(***************************************************************************)
(* The MPI programs.  Each rank r of a job of world processes executes the *)
(* operations of Script(r), one after the other:                           *)
(*   "send", "recv"   with a peer, a tag and data; a receive takes the     *)
(*                    first message of the peer with its tag;              *)
(*   "isend", "irecv", "waitall"                                           *)
(*                    the same without waiting, and the wait for both;     *)
(*   collectives      that bring the root's data to the ranks (FromRoot),  *)
(*                    all data to the root (ToRoot), or all data to all.   *)
(* A send may return once its message is buffered, and a collective once   *)
(* its rank has what it needs, but the library may as well wait for the    *)
(* receiver and for all ranks.                                             *)
(***************************************************************************)
EXTENDS Integers, FiniteSets, SequencesExt

CONSTANTS Worlds,         \* the sizes of the job
          Total,          \* TASKS_NUM, TOTALTASKS, N: the elements to share out
          Programs

ASSUME WorldsAssumption == Worlds \subseteq Nat \ {0} /\ Total \in Nat

VARIABLES prog, world,
          at,             \* at[r]: the operation rank r is in
          phase,          \* "enter", or "inside" an operation that waits
          channel,        \* channel[<<s, r>>]: the messages from s to r
          requests,       \* requests[r]: the operations r has an irecv open for
          got,            \* got[r]: what rank r has received, in order
          offered,        \* offered[r]: what it has brought to the collectives
          aborted         \* an operation has failed, which ends the job

vars == <<prog, world, at, phase, channel, requests, got, offered, aborted>>

Ranks == 0..world - 1
Root == 0
Unset == -1

Send(peer, tag, data) == [op |-> "send", peer |-> peer, tag |-> tag, data |-> data]
Recv(peer, tag) == [op |-> "recv", peer |-> peer, tag |-> tag, data |-> Unset]
Isend(peer, tag, data) == [Send(peer, tag, data) EXCEPT !.op = "isend"]
Irecv(peer, tag) == [Recv(peer, tag) EXCEPT !.op = "irecv"]
Simple(op) == [op |-> op, peer |-> Root, tag |-> 0, data |-> Unset]

FromRoot == {"bcast", "scatter", "scatterv"}
ToRoot == {"reduce", "gather"}
Collectives == FromRoot \cup ToRoot \cup {"allgather", "split"}

-----------------------------------------------------------------------------
(* The programs. *)

\* Mutant: the array is received before its size.
ArrayFirst(r) ==
  CASE r = 0 -> <<Send(1, 0, 100), Send(2, 0, 100), Send(1, 1, 7), Send(2, 1, 7)>>
    [] r \in {1, 2} -> <<Recv(0, 1), Recv(0, 0)>>
    [] OTHER -> <<>>

\* The size 100, with tag 0, and the array (7), with tag 1.
BlockingSendRecv(r) ==
  CASE r = 0 -> <<Send(1, 0, 100), Send(2, 0, 100), Send(1, 1, 7), Send(2, 1, 7)>>
    [] r \in {1, 2} -> <<Recv(0, 0), Recv(0, 1)>>
    [] OTHER -> <<>>

SendRecv(r) == CASE r = 0 -> <<Send(1, 0, 7)>> [] r = 1 -> <<Recv(0, 0)>> [] OTHER -> <<>>

\* The partner of a rank beyond 1 is negative.
IrecvIsend(r) == <<Irecv(1 - r, 99), Isend(1 - r, 99, r), Simple("waitall")>>

Script(r) ==
  CASE prog = "BlockingSendRecv" -> BlockingSendRecv(r)
    [] prog = "SendRecv" -> SendRecv(r)
    [] prog = "IrecvIsend" -> IrecvIsend(r)
    [] prog = "Bcast_Reduce" -> <<Simple("bcast"), Simple("reduce")>>
    [] prog = "Scatter" -> <<Simple("scatter")>>
    [] prog = "Scatterv" -> <<Simple("scatterv")>>
    [] prog = "ScatterAndGather" -> <<Simple("scatter"), Simple("gather")>>
    [] prog = "ALLGather" -> <<Simple("allgather")>>
    [] prog = "NewCommunicator" -> <<Simple("split")>>

AllPrograms == {"BlockingSendRecv", "SendRecv", "IrecvIsend", "Bcast_Reduce", "Scatter",
                "Scatterv", "ScatterAndGather", "ALLGather", "NewCommunicator"}

\* The ranks the program sends to or expects: with fewer, or for the exchange
\* with more, some operation has a peer that does not exist.
Suits == CASE prog = "BlockingSendRecv" -> world >= 3
           [] prog = "SendRecv" -> world >= 2
           [] prog = "IrecvIsend" -> world = 2
           [] OTHER -> TRUE

-----------------------------------------------------------------------------
Init == /\ prog \in Programs /\ world \in Worlds
        /\ at = [r \in Ranks |-> 1]
        /\ phase = [r \in Ranks |-> "enter"]
        /\ channel = [pair \in Ranks \X Ranks |-> <<>>]
        /\ requests = [r \in Ranks |-> {}]
        /\ got = [r \in Ranks |-> <<>>]
        /\ offered = [r \in Ranks |-> <<>>]
        /\ aborted = FALSE

Finished(r) == at[r] > Len(Script(r))
AllDone == \A r \in Ranks : Finished(r)
Op(r) == Script(r)[at[r]]
Doing(r, ops, label) == ~aborted /\ ~Finished(r) /\ Op(r).op \in ops /\ phase[r] = label

GoOn(r) == at' = [at EXCEPT ![r] = @ + 1] /\ phase' = [phase EXCEPT ![r] = "enter"]
GoInside(r) == phase' = [phase EXCEPT ![r] = "inside"] /\ UNCHANGED at
Get(r, data) == got' = [got EXCEPT ![r] = Append(@, data)]

AnySource == -1
ProcNull == -2

\* A peer that does not exist is an error, and errors are fatal.
Abort(r) == /\ Doing(r, {"send", "isend", "recv", "irecv"}, "enter")
            /\ Op(r).peer \notin Ranks \cup {ProcNull}
            /\ Op(r).op = "irecv" => Op(r).peer # AnySource
            /\ aborted' = TRUE
            /\ UNCHANGED <<prog, world, at, phase, channel, requests, got, offered>>

\* Nothing is exchanged with the process null.
Void(r) == /\ Doing(r, {"isend", "irecv"}, "enter") /\ Op(r).peer = ProcNull
           /\ GoOn(r)
           /\ UNCHANGED <<prog, world, channel, requests, got, offered, aborted>>

Post(r) == /\ Doing(r, {"send", "isend"}, "enter") /\ Op(r).peer \in Ranks
           /\ channel' = [channel EXCEPT ![<<r, Op(r).peer>>] =
                            Append(@, [tag |-> Op(r).tag, data |-> Op(r).data, id |-> at[r]])]
           /\ IF Op(r).op = "send" THEN GoInside(r) ELSE GoOn(r)
           /\ UNCHANGED <<prog, world, requests, got, offered, aborted>>

\* The messages that rank r sent with the operations in ids are received.
Taken(r, ids) ==
  \A u \in Ranks : \A j \in DOMAIN channel[<<r, u>>] : channel[<<r, u>>][j].id \notin ids

SendReturns(r) == /\ Doing(r, {"send"}, "inside")
                  /\ Taken(r, {at[r]})
                  /\ GoOn(r)
                  /\ UNCHANGED <<prog, world, channel, requests, got, offered, aborted>>

OpenRequest(r) == /\ Doing(r, {"irecv"}, "enter") /\ Op(r).peer \in Ranks \cup {AnySource}
                  /\ requests' = [requests EXCEPT ![r] = @ \cup {at[r]}]
                  /\ GoOn(r)
                  /\ UNCHANGED <<prog, world, channel, got, offered, aborted>>

FirstWith(tag, sent) == SelectInSeq(sent, LAMBDA m : m.tag = tag)

\* Rank r takes the first message from s with the tag.
Take(s, r, tag) ==
  LET sent == channel[<<s, r>>]
      j == FirstWith(tag, sent)
  IN  /\ j # 0
      /\ Get(r, sent[j].data)
      /\ channel' = [channel EXCEPT ![<<s, r>>] = RemoveAt(@, j)]

Receive(r) == /\ Doing(r, {"recv"}, "enter") /\ Op(r).peer \in Ranks
              /\ Take(Op(r).peer, r, Op(r).tag)
              /\ GoOn(r)
              /\ UNCHANGED <<prog, world, requests, offered, aborted>>

\* A message arrives for an open request; that may be any time.
Deliver(r) == /\ ~aborted
              /\ \E k \in requests[r] : \E s \in Ranks :
                   /\ Script(r)[k].peer \in {s, AnySource}
                   /\ Take(s, r, Script(r)[k].tag)
                   /\ requests' = [requests EXCEPT ![r] = @ \ {k}]
              /\ UNCHANGED <<prog, world, at, phase, offered, aborted>>

WaitallReturns(r) == /\ Doing(r, {"waitall"}, "enter")
                     /\ requests[r] = {} /\ Taken(r, 1..at[r])
                     /\ GoOn(r)
                     /\ UNCHANGED <<prog, world, channel, requests, got, offered, aborted>>

\* The library has buffered the messages.
ReturnsBuffered(r) == /\ \/ Doing(r, {"send"}, "inside")
                         \/ Doing(r, {"waitall"}, "enter") /\ requests[r] = {}
                      /\ GoOn(r)
                      /\ UNCHANGED <<prog, world, channel, requests, got, offered, aborted>>

-----------------------------------------------------------------------------
(* Collectives. *)

\* What every rank gets of an even distribution, and of one with remainder.
Share == Total \div world

\* Mutant: the remainder is not shared out.
EvenCount(r) == Total \div world

sendcounts(r) == Total \div world + (IF r < Total % world THEN 1 ELSE 0)

\* Computed by each rank, for its buffer.
recv_count(r) == IF r < Total % world THEN Share + 1 ELSE Share

\* Computed by the root, in the loop that sets sendcounts.
displs[r \in Nat] == IF r = 0 THEN 0 ELSE displs[r - 1] + sendcounts(r - 1)

\* What rank r brings: the root its array 0, 1, ..., for a gather its squares.
Offer(r) ==
  LET op == Op(r).op
  IN  CASE op = "bcast" -> IF r = Root THEN 1000 ELSE 0
        [] op = "reduce" -> r
        [] op \in {"scatter", "scatterv"} ->
             IF r = Root THEN [i \in 1..Total |-> i - 1] ELSE <<>>
        [] op = "gather" -> [i \in 1..Share |-> Last(got[r])[i] * Last(got[r])[i]]
        [] op = "allgather" -> [i \in 1..Share |-> r + i - 1]
        [] op = "split" -> r % 3

\* MPI_SUM, in the order of the ranks.
Reduced(offers) ==
  LET sum[u \in 0..world] == IF u = 0 THEN 0 ELSE sum[u - 1] + offers[u - 1]
  IN  sum[world]

\* The offers of all ranks to the collective that rank r is in.
Offers(r) == [u \in Ranks |-> offered[u][Len(offered[r])]]

\* Arrays with a place for every element; what nobody sends stays unset.
Gathered(parts) ==
  LET all == FlattenSeq([u \in 1..world |-> parts[u - 1]])
  IN  [i \in 1..Total |-> IF i <= Len(all) THEN all[i] ELSE Unset]

\* What rank r gets; nothing, unless it is the root, where all data goes there.
Result(r) ==
  LET op == Op(r).op
      offers == Offers(r)
      first == displs[r]
  IN  CASE op = "bcast" -> offers[Root]
        [] op = "reduce" -> IF r = Root THEN Reduced(offers) ELSE 0
        [] op = "scatter" -> SubSeq(offers[Root], r * Share + 1, (r + 1) * Share)
        [] op = "scatterv" -> SubSeq(offers[Root], first + 1, first + sendcounts(r))
        [] op = "gather" -> IF r = Root THEN Gathered(offers) ELSE <<>>
        [] op = "allgather" -> Gathered(offers)
        [] op = "split" -> Cardinality({u \in Ranks : u < r /\ offers[u] = offers[r]})

Enter(r) == /\ Doing(r, Collectives, "enter")
            /\ offered' = [offered EXCEPT ![r] = Append(@, Offer(r))]
            /\ GoInside(r)
            /\ UNCHANGED <<prog, world, channel, requests, got, aborted>>

HasEntered(u, r) == Len(offered[u]) >= Len(offered[r])

\* Rank r leaves the collective when the ranks in needed have entered it; a
\* block that does not fit into its buffer is a fatal error.
LeaveAfter(r, needed) == /\ Doing(r, Collectives, "inside")
                         /\ \A u \in needed : HasEntered(u, r)
                         /\ Get(r, Result(r))
                         /\ aborted' = (Op(r).op = "scatterv" /\ recv_count(r) < sendcounts(r))
                         /\ GoOn(r)
                         /\ UNCHANGED <<prog, world, channel, requests, offered>>

\* Those whose data rank r needs.
Needed(r) == CASE Op(r).op \in FromRoot -> {Root}
               [] Op(r).op \in ToRoot -> IF r = Root THEN Ranks ELSE {r}
               [] OTHER -> Ranks

LeaveTogether(r) == LeaveAfter(r, Ranks)
LeaveEarly(r) == Doing(r, Collectives, "inside") /\ LeaveAfter(r, Needed(r))

Act(r) == \/ Abort(r) \/ Void(r) \/ Post(r) \/ SendReturns(r) \/ OpenRequest(r)
          \/ Receive(r) \/ Deliver(r) \/ WaitallReturns(r) \/ Enter(r) \/ LeaveTogether(r)

Ended == (AllDone \/ aborted) /\ UNCHANGED vars

Next == (\E r \in Ranks : Act(r) \/ ReturnsBuffered(r) \/ LeaveEarly(r)) \/ Ended

\* Each process goes on running; that the library returns early is not assumed.
Fairness == \A r \in UNION {0..w - 1 : w \in Worlds} : WF_vars(r \in Ranks /\ Act(r))

Spec == Init /\ [][Next]_vars
FairSpec == Spec /\ Fairness

-----------------------------------------------------------------------------
\* What the ranks got from their j-th receive or collective, one after another.
AllTogether(j) == FlattenSeq([u \in 1..world |-> got[u - 1][j]])
Array(n) == [i \in 1..n |-> i - 1]

(* When the job ends, every message has been received, by the operation    *)
(* that it was meant for, and the collectives have distributed and         *)
(* collected what they should: all elements, in order and once, but for    *)
(* those that an even distribution leaves over.                            *)
Collected ==
  AllDone /\ ~aborted =>
    /\ \A pair \in Ranks \X Ranks : channel[pair] = <<>>
    /\ \A r \in Ranks : requests[r] = {}
    /\ prog = "BlockingSendRecv" => \A r \in {1, 2} : got[r] = <<100, 7>>
    /\ prog = "SendRecv" => got[1] = <<7>>
    /\ prog = "IrecvIsend" => got[0] = <<1>> /\ got[1] = <<0>>
    /\ prog = "Bcast_Reduce" => /\ \A r \in Ranks : got[r][1] = 1000
                                /\ got[Root][2] = (world * (world - 1)) \div 2
    /\ prog \in {"Scatter", "ScatterAndGather"} => AllTogether(1) = Array(world * Share)
    /\ prog = "Scatterv" => AllTogether(1) = Array(Total)
    /\ prog = "ScatterAndGather" =>
         got[Root][2] = [i \in 1..Total |-> IF i <= world * Share THEN (i - 1) * (i - 1) ELSE Unset]
    /\ prog = "ALLGather" =>
         \A r, u \in Ranks : \A i \in 1..Share : got[r][1][u * Share + i] = u + i - 1
    /\ prog = "NewCommunicator" =>
         \A r, u \in Ranks : u < r /\ u % 3 = r % 3 => got[u] # got[r]

(* The job ends: no rank waits for a message or a rank that does not come, *)
(* whether or not the library buffers.  It is aborted exactly when a peer  *)
(* does not exist.                                                         *)
Completes == /\ Suits ~> AllDone /\ ~aborted
             /\ ~Suits ~> aborted
=============================================================================
