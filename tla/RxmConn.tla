------------------------------ MODULE RxmConn ------------------------------
(***************************************************************************)
(* Connections of the RXM provider, prov/rxm/src/rxm_conn.c.  An rdm       *)
(* endpoint keeps a conn for each peer it talks to.  It connects it over a *)
(* msg endpoint of the provider below when the application first sends, or *)
(* accepts the connection the peer asks for.  Both may happen at once.     *)
(*                                                                         *)
(* The msg provider (tcp, verbs) is external: a request arrives in the     *)
(* event queue of the peer, which accepts or rejects it; both ends of an   *)
(* accepted one see FI_CONNECTED, in any order, and FI_SHUTDOWN once the   *)
(* other end is closed or the link fails.  An event queue is read in       *)
(* order; closing a msg endpoint drops the events it has queued.           *)
(*                                                                         *)
(* All of rxm_conn.c runs under the endpoint's lock: a step handles one    *)
(* event, or is what rxm_get_conn does before or after its progress loop.  *)
(***************************************************************************)
EXTENDS Integers, FiniteSets, Sequences

CONSTANTS
    Ep,          \* endpoints; a number is an address, ordered by ofi_addr_cmp
    Pool,        \* the conns of each endpoint's AV
    Msg,         \* msg endpoints: 1 .. n
    Setups       \* who sends to whom, and how much goes wrong

VARIABLES
    setup,
    conns,
    idx,         \* conn_idx_map: the conn of each peer, or 0
    loopback,    \* loopback_list
    connecting_cnt,
    msgs,        \* the msg endpoints
    wire,        \* requests on their way to each endpoint
    eq,          \* msg_eq
    pid,         \* the process that has the address
    call,        \* rxm_get_conn: where it is, and *conn
    faults       \* failures so far, at most setup.faults

Conn == UNION {Pool[e] : e \in Ep}

ep == <<conns, idx, loopback, connecting_cnt>>
net == <<msgs, wire, eq>>
vars == <<setup, ep, net, pid, call, faults>>

FreeConn == [own |-> 0, peer |-> 0, state |-> "free", msg |-> 0, pid |-> 0, deferred |-> FALSE]
FreeMsg == [own |-> 0, conn |-> 0, stage |-> "free", other |-> 0, pid |-> 0]
NoCall == [at |-> "idle", conn |-> 0, peer |-> 0]

Init ==
    /\ setup \in Setups
    /\ conns = [c \in Conn |-> FreeConn]
    /\ idx = [e \in Ep |-> [p \in Ep |-> 0]]
    /\ loopback = [e \in Ep |-> {}]
    /\ connecting_cnt = [e \in Ep |-> 0]
    /\ msgs = [m \in Msg |-> FreeMsg]
    /\ wire = [e \in Ep |-> << >>]
    /\ eq = [e \in Ep |-> << >>]
    /\ pid = [e \in Ep |-> 1]
    /\ call = [e \in Ep |-> NoCall]
    /\ faults = 0

\* The one a pool hands out next, as a set: empty if there is none.
NextFree(pool, f) ==
    {x \in pool : f[x].own = 0 /\ \A y \in pool : f[y].own = 0 => x <= y}
Pending(c) == conns[c].state \in {"connecting", "accepting"}
Fault == faults < setup.faults /\ faults' = faults + 1

(***************************************************************************)
(* The msg provider.                                                       *)
(***************************************************************************)
Event(name, m) == [event |-> name, msg |-> m, from |-> 0, pid |-> msgs[m].pid]

\* fi_close of the msg endpoints S: the other ends are on their own ...
Closed(M, S) ==
    [m \in Msg |->
        IF m \in S THEN FreeMsg
        ELSE IF M[m].other \in S THEN [M[m] EXCEPT !.other = 0] ELSE M[m]]
\* ... their events are dropped, and their requests stay where they are.
Dropped(Q, S) ==
    [e \in Ep |->
        LET kept == SelectSeq(Q[e], LAMBDA v : v.event = "connreq" \/ v.msg \notin S) IN
        [i \in DOMAIN kept |->
            IF kept[i].msg \in S THEN [kept[i] EXCEPT !.msg = 0] ELSE kept[i]]]
\* fi_reject: the end that asked is told the reason, if it is still there.
Told(M, r) ==
    IF r.msg = 0 THEN M ELSE [M EXCEPT ![r.msg].stage = "down"]
TellTo(Q, r, reason) ==
    IF r.msg = 0 THEN Q ELSE [Q EXCEPT ![r.from] = Append(@, Event(reason, r.msg))]

\* A request reaches the peer's event queue, perhaps after the end that asked
\* was closed.
Arrive(e) ==
    /\ wire[e] # << >>
    /\ eq' = [eq EXCEPT ![e] = Append(@, Head(wire[e]))]
    /\ wire' = [wire EXCEPT ![e] = Tail(@)]
    /\ UNCHANGED <<setup, ep, msgs, pid, call, faults>>

\* FI_CONNECTED, at the end that asked and at the end that accepted.
Up(m) ==
    /\ msgs[m].stage = "linked"
    /\ msgs' = [msgs EXCEPT ![m].stage = "up"]
    /\ eq' = [eq EXCEPT ![msgs[m].own] = Append(@, Event("connected", m))]
    /\ UNCHANGED <<setup, ep, wire, pid, call, faults>>

\* FI_SHUTDOWN, or an error other than ECONNREFUSED.
Down(m) ==
    /\ msgs[m].stage \in {"linked", "up"} /\ msgs[m].other = 0
    /\ msgs' = [msgs EXCEPT ![m].stage = "down"]
    /\ eq' = [eq EXCEPT ![msgs[m].own] = Append(@, Event("shutdown", m))]
    /\ UNCHANGED <<setup, ep, wire, pid, call, faults>>

\* The link fails.
Cut(m) ==
    /\ msgs[m].other # 0 /\ Fault
    /\ msgs' = [msgs EXCEPT ![m].other = 0, ![msgs[m].other].other = 0]
    /\ UNCHANGED <<setup, ep, wire, eq, pid, call>>

(***************************************************************************)
(* Conns.                                                                  *)
(***************************************************************************)
\* A conn that was being set up no longer is.
CountDownConnecting(c) ==
    [e \in Ep |-> connecting_cnt[e] -
        IF conns[c].own = e /\ conns[c].state = "connecting" THEN 1 ELSE 0]
CountDown(c) ==
    [e \in Ep |-> connecting_cnt[e] - IF conns[c].own = e /\ Pending(c) THEN 1 ELSE 0]

\* rxm_close_conn, and rxm_free_conn unless the conn is kept.
CloseConn(c, keep, Q) ==
    LET own == conns[c].own IN
    /\ conns' = [conns EXCEPT ![c] =
                    IF keep THEN [@ EXCEPT !.state = "idle", !.msg = 0, !.deferred = FALSE]
                            ELSE FreeConn]
    /\ idx' = IF ~keep /\ idx[own][conns[c].peer] = c
              THEN [idx EXCEPT ![own][conns[c].peer] = 0] ELSE idx
    /\ loopback' = [loopback EXCEPT ![own] = @ \ {c}]
    /\ connecting_cnt' = CountDown(c)
    /\ msgs' = Closed(msgs, {conns[c].msg})
    /\ eq' = Dropped(Q, {conns[c].msg})
    /\ wire' = Dropped(wire, {conns[c].msg})

(***************************************************************************)
(* rxm_get_conn, called to send to p.                                      *)
(***************************************************************************)
\* The peer's conn, or a new one, as a set.
AddConn(e, p) == IF idx[e][p] = 0 THEN NextFree(Pool[e], conns) ELSE {idx[e][p]}
Indexed(e, p, c) == [idx EXCEPT ![e][p] = c]
NewConn(e, p) == [FreeConn EXCEPT !.own = e, !.peer = p, !.state = "idle"]

\* rxm_connect of a conn that is IDLE: fi_connect, or it fails.
GetConnect(e, p) ==
    /\ call[e] = NoCall
    /\ \E c \in AddConn(e, p) :
        LET old == IF idx[e][p] = 0 THEN NewConn(e, p) ELSE conns[c] IN
        /\ old.state = "idle"
        /\ idx' = Indexed(e, p, c)
        /\ \/ \E m \in NextFree(Msg, msgs) :
                /\ conns' = [conns EXCEPT ![c] = [old EXCEPT !.state = "connecting", !.msg = m]]
                /\ msgs' = [msgs EXCEPT ![m] = [FreeMsg EXCEPT !.own = e, !.conn = c, !.stage = "asked"]]
                /\ wire' = [wire EXCEPT ![p] =
                              Append(@, [event |-> "connreq", msg |-> m, from |-> e, pid |-> pid[e]])]
                /\ connecting_cnt' = [connecting_cnt EXCEPT ![e] = @ + 1]
                /\ UNCHANGED faults
           \/ /\ Fault
              /\ conns' = [conns EXCEPT ![c] = old]
              /\ UNCHANGED <<msgs, wire, connecting_cnt>>
    /\ UNCHANGED <<setup, loopback, eq, pid, call>>

\* A conn that is CONNECTED is returned, once what it deferred is sent.
GetConnected(e, p) ==
    /\ call[e] = NoCall
    /\ idx[e][p] # 0 /\ conns[idx[e][p]].state = "connected"
    /\ call' = [call EXCEPT ![e] =
                   [at |-> IF conns[idx[e][p]].deferred THEN "progress" ELSE "ok",
                    conn |-> idx[e][p], peer |-> p]]
    /\ UNCHANGED <<setup, ep, net, pid, faults>>
\* rxm_ep_do_progress is done: 0 or -FI_EAGAIN.
GetReturn(e) ==
    /\ call[e].at = "progress"
    /\ call' = [call EXCEPT ![e] =
                   IF conns[call[e].conn].deferred THEN NoCall ELSE [@ EXCEPT !.at = "ok"]]
    /\ UNCHANGED <<setup, ep, net, pid, faults>>
\* The caller has used the conn and lets go of the lock.
GetDone(e) ==
    /\ call[e].at = "ok"
    /\ call' = [call EXCEPT ![e] = NoCall]
    /\ UNCHANGED <<setup, ep, net, pid, faults>>

\* A transfer of the provider's own finds the msg endpoint busy ...
Defer(c) ==
    /\ setup.defers /\ ~conns[c].deferred
    /\ conns[c].state \in {"accepting", "connected"} /\ call[conns[c].own].at # "ok"
    /\ conns' = [conns EXCEPT ![c].deferred = TRUE]
    /\ UNCHANGED <<setup, idx, loopback, connecting_cnt, net, pid, call, faults>>
\* ... and is sent later.
SendDeferred(c) ==
    /\ conns[c].deferred /\ conns[c].state = "connected" /\ call[conns[c].own].at # "ok"
    /\ conns' = [conns EXCEPT ![c].deferred = FALSE]
    /\ UNCHANGED <<setup, idx, loopback, connecting_cnt, net, pid, call, faults>>

(***************************************************************************)
(* rxm_process_connreq.                                                    *)
(***************************************************************************)
Reads(e, event) ==
    call[e].at # "ok" /\ eq[e] # << >> /\ Head(eq[e]).event = event
Rest(e) == [eq EXCEPT ![e] = Tail(@)]

\* Connecting to itself: the request is for a second conn.
Loops(e, r) == r.from = e /\ idx[e][e] # 0 /\ conns[idx[e][e]].state = "connecting"
Target(e, r) == IF Loops(e, r) THEN NextFree(Pool[e], conns) ELSE AddConn(e, r.from)
AlreadyAnyProcess(e, r) ==
    LET c == idx[e][r.from] IN
    c # 0 /\ conns[c].state = "connecting" /\ r.from < e
AlreadyConnecting(e, r) ==
    LET c == idx[e][r.from] IN
    /\ c # 0
    /\ \/ conns[c].state = "connecting" /\ r.from # e
       \/ conns[c].state \in {"accepting", "connected"} /\ conns[c].pid = r.pid
\* The conn this end has, or is making, stays.
Already(e, r) ==
    LET c == idx[e][r.from] IN
    /\ c # 0
    /\ \/ conns[c].state = "connecting" /\ r.from < e
       \/ conns[c].state \in {"accepting", "connected"} /\ conns[c].pid = r.pid

\* FI_EALREADY, or no memory for the peer or the conn.
RejectReq(e) ==
    /\ Reads(e, "connreq")
    /\ LET r == Head(eq[e]) IN
        \E reason \in {"ealready", "refused"} :
            /\ \/ reason = "ealready" /\ Already(e, r) /\ UNCHANGED faults
               \/ reason = "refused" /\ ~Already(e, r) /\ Fault
            /\ msgs' = Told(msgs, r)
            /\ eq' = TellTo(Rest(e), r, reason)
    /\ UNCHANGED <<setup, ep, wire, pid, call>>

\* The msg endpoint a conn gives up for the request.
GivenUp(c) == IF conns[c].msg = 0 THEN {} ELSE {conns[c].msg}

AcceptReq(e) ==
    /\ Reads(e, "connreq")
    /\ LET r == Head(eq[e]) IN
        /\ ~Already(e, r)
        /\ \E c \in Target(e, r), m \in NextFree(Msg, msgs) :
            /\ conns' = [conns EXCEPT ![c] =
                            [NewConn(e, r.from) EXCEPT !.state = "accepting", !.msg = m, !.pid = r.pid]]
            /\ idx' = IF Loops(e, r) THEN idx ELSE Indexed(e, r.from, c)
            /\ loopback' = [loopback EXCEPT ![e] = IF Loops(e, r) THEN @ \cup {c} ELSE @]
            /\ connecting_cnt' = [CountDown(c) EXCEPT ![e] = @ + 1]
            /\ LET left == Closed(msgs, GivenUp(c))
                   mine == [own |-> e, conn |-> c, stage |-> "linked", other |-> r.msg, pid |-> r.pid]
               IN  msgs' = IF r.msg = 0 THEN [left EXCEPT ![m] = mine]
                           ELSE [left EXCEPT ![m] = mine, ![r.msg].stage = "linked",
                                             ![r.msg].other = m, ![r.msg].pid = pid[e]]
            /\ eq' = Dropped(Rest(e), GivenUp(c))
            /\ wire' = Dropped(wire, GivenUp(c))
    /\ UNCHANGED <<setup, pid, call, faults>>

\* rxm_open_conn or fi_accept fails: the conn is gone, whatever it was.  A
\* loopback conn that could not be opened stays on the list.
FailReq(e) ==
    /\ Reads(e, "connreq") /\ Fault
    /\ LET r == Head(eq[e]) IN
        /\ ~Already(e, r)
        /\ \E c \in Target(e, r), opened \in BOOLEAN :
            /\ conns' = [conns EXCEPT ![c] = FreeConn]
            /\ idx' = IF Loops(e, r) THEN idx ELSE Indexed(e, r.from, 0)
            /\ loopback' = [loopback EXCEPT ![e] =
                               IF Loops(e, r) /\ ~opened THEN @ \cup {c} ELSE @]
            /\ connecting_cnt' = CountDown(c)
            /\ msgs' = Told(Closed(msgs, GivenUp(c)), r)
            /\ eq' = TellTo(Dropped(Rest(e), GivenUp(c)), r, "refused")
            /\ wire' = Dropped(wire, GivenUp(c))
    /\ UNCHANGED <<setup, pid, call>>

(***************************************************************************)
(* The events of a msg endpoint; its context is the conn.                  *)
(***************************************************************************)
ConnOf(e) == msgs[Head(eq[e]).msg].conn

\* The process at the other end; the end that accepted knows it from the request.
RemotePidKnown(c, v) == conns[c].pid
RemotePid(c, v) == IF conns[c].state = "connecting" THEN v.pid ELSE conns[c].pid

\* rxm_process_connect
ProcessConnect(e) ==
    /\ Reads(e, "connected")
    /\ LET c == ConnOf(e) IN
        conns' = [conns EXCEPT ![c].state = "connected",
                                ![c].pid = RemotePid(c, Head(eq[e]))]
    /\ connecting_cnt' = [connecting_cnt EXCEPT ![e] = @ - 1]
    /\ eq' = Rest(e)
    /\ UNCHANGED <<setup, idx, loopback, msgs, wire, pid, call, faults>>

\* rxm_process_reject
ProcessReject(e) ==
    /\ \/ Reads(e, "ealready")
       \/ Reads(e, "refused")
    /\ IF conns[ConnOf(e)].state = "connecting"
       THEN CloseConn(ConnOf(e), Head(eq[e]).event = "ealready", Rest(e))
       ELSE eq' = Rest(e) /\ UNCHANGED <<ep, msgs, wire>>
    /\ UNCHANGED <<setup, pid, call, faults>>

\* rxm_process_shutdown
ProcessShutdown(e) ==
    /\ Reads(e, "shutdown")
    /\ IF conns[ConnOf(e)].state # "idle"
       THEN CloseConn(ConnOf(e), FALSE, Rest(e))
       ELSE eq' = Rest(e) /\ UNCHANGED <<ep, msgs, wire>>
    /\ UNCHANGED <<setup, pid, call, faults>>

(***************************************************************************)
(* Endpoints and addresses come and go.                                    *)
(***************************************************************************)
\* rxm_freeall_conns, or the process dies; the address is soon used again, by
\* the same process or by another.
Close(e, newpid) ==
    /\ call[e] = NoCall /\ Fault
    /\ LET mine == {m \in Msg : msgs[m].own = e}
           asking == {eq[e][i].msg : i \in {j \in DOMAIN eq[e] : eq[e][j].event = "connreq"}}
                        \ (mine \cup {0})
       IN  /\ msgs' = [m \in Msg |-> IF m \in asking THEN [msgs[m] EXCEPT !.stage = "down"]
                                     ELSE Closed(msgs, mine)[m]]
           /\ eq' = [p \in Ep |->
                        IF p = e THEN << >>
                        ELSE LET told == {m \in asking : msgs[m].own = p} IN
                             Dropped(eq, mine)[p] \o
                                (IF told = {} THEN << >>
                                 ELSE << Event("refused", CHOOSE m \in told : TRUE) >>)]
    /\ wire' = Dropped(wire, {m \in Msg : msgs[m].own = e})
    /\ conns' = [c \in Conn |-> IF conns[c].own = e THEN FreeConn ELSE conns[c]]
    /\ idx' = [idx EXCEPT ![e] = [p \in Ep |-> 0]]
    /\ loopback' = [loopback EXCEPT ![e] = {}]
    /\ connecting_cnt' = [connecting_cnt EXCEPT ![e] = 0]
    /\ pid' = [pid EXCEPT ![e] = newpid]
    /\ UNCHANGED <<setup, call>>

\* rxm_av_remove_handler.  It closes the msg endpoint of the conn: one that is
\* IDLE has none, and the process dies of it.
Remove(e, p) ==
    LET c == idx[e][p] IN
    /\ setup.removes /\ c # 0
    /\ IF conns[c].state = "idle" THEN Close(e, pid[e] + 1)
       ELSE call[e] = NoCall /\ Fault /\ CloseConn(c, FALSE, eq) /\ UNCHANGED <<setup, pid, call>>

Next ==
    \/ \E e \in Ep :
        \/ \E p \in Ep : <<e, p>> \in setup.wants /\ (GetConnect(e, p) \/ GetConnected(e, p))
        \/ GetReturn(e) \/ GetDone(e)
        \/ RejectReq(e) \/ AcceptReq(e) \/ FailReq(e)
        \/ ProcessConnect(e) \/ ProcessReject(e) \/ ProcessShutdown(e)
        \/ Arrive(e)
        \/ Close(e, pid[e]) \/ Close(e, pid[e] + 1)
        \/ \E p \in Ep : Remove(e, p)
    \/ \E c \in Conn : Defer(c) \/ SendDeferred(c)
    \/ \E m \in Msg : Up(m) \/ Down(m) \/ Cut(m)

\* The application tries again when told to (-FI_EAGAIN), every endpoint's
\* progress is driven, and the msg provider delivers its events.  Whoever waits
\* for the endpoint's lock gets it in turn.
HandlesEvents(e) ==
    RejectReq(e) \/ AcceptReq(e) \/ ProcessConnect(e) \/ ProcessReject(e) \/ ProcessShutdown(e)
Fairness ==
    /\ \A e \in Ep :
        /\ WF_vars(Arrive(e)) /\ WF_vars(GetReturn(e)) /\ WF_vars(GetDone(e)) /\ SF_vars(HandlesEvents(e))
        /\ \A p \in Ep : SF_vars(<<e, p>> \in setup.wants /\ GetConnect(e, p))
    /\ \A m \in Msg : WF_vars(Up(m)) /\ WF_vars(Down(m))

Spec == Init /\ [][Next]_vars /\ Fairness

(***************************************************************************)
(* Properties.                                                             *)
(***************************************************************************)
States == {"free", "idle", "connecting", "accepting", "connected"}
Stages == {"free", "asked", "linked", "up", "down"}
Events == {"connreq", "connected", "ealready", "refused", "shutdown"}

\* The variables have their types (rxm_conn, rxm_ep, rxm_eq_cm_entry);
\* connecting_cnt is never negative (the assertions of rxm_close_conn and
\* rxm_process_connect).
TypeOK ==
    /\ setup \in Setups
    /\ conns \in [Conn -> [own : Ep \cup {0}, peer : Ep \cup {0}, state : States,
                           msg : Msg \cup {0}, pid : Nat, deferred : BOOLEAN]]
    /\ idx \in [Ep -> [Ep -> Conn \cup {0}]]
    /\ loopback \in [Ep -> SUBSET Conn]
    /\ connecting_cnt \in [Ep -> Nat]
    /\ msgs \in [Msg -> [own : Ep \cup {0}, conn : Conn \cup {0}, stage : Stages,
                         other : Msg \cup {0}, pid : Nat]]
    /\ wire \in [Ep -> Seq([event : {"connreq"}, msg : Msg \cup {0}, from : Ep, pid : Nat])]
    /\ eq \in [Ep -> Seq([event : Events, msg : Msg \cup {0}, from : Ep \cup {0}, pid : Nat])]
    /\ pid \in [Ep -> Nat]
    /\ call \in [Ep -> [at : {"idle", "progress", "ok"}, conn : Conn \cup {0}, peer : Ep \cup {0}]]
    /\ faults \in Nat

ConnsOf(e) == {c \in Conn : conns[c].own = e}

\* connecting_cnt, which decides how eagerly rxm_ep_do_progress polls for
\* connection events, is the number of conns that are being set up; however
\* requests cross, fail or are replaced, rxm_close_conn and
\* rxm_process_connect between them count each one down once.
ConnectingCount ==
    \A e \in Ep : connecting_cnt[e] = Cardinality({c \in ConnsOf(e) : Pending(c)})

\* Every open msg endpoint belongs to one conn and its context is that conn,
\* so no event is handled for a conn that was freed; a conn without a msg
\* endpoint is IDLE; and rxm_freeall_conns finds every conn, in the index or
\* on the loopback list.
Owned ==
    /\ \A m \in Msg : msgs[m].own # 0 =>
        conns[msgs[m].conn].own = msgs[m].own /\ conns[msgs[m].conn].msg = m
    /\ \A c \in Conn : conns[c].own # 0 =>
        /\ conns[c].state = "idle" <=> conns[c].msg = 0
        /\ conns[c].msg # 0 => msgs[conns[c].msg].own = conns[c].own /\ msgs[conns[c].msg].conn = c
        /\ idx[conns[c].own][conns[c].peer] = c \/ c \in loopback[conns[c].own]

\* Events meet the state they are for: FI_CONNECTED a conn that is being set
\* up, a rejection one that asked (the cases rxm_process_reject calls unlikely
\* never happen when closing a msg endpoint drops its events).
EventsExpected ==
    \A e \in Ep : eq[e] # << >> =>
        LET v == Head(eq[e]) IN
        /\ v.event = "connected" => Pending(msgs[v.msg].conn)
        /\ v.event \in {"ealready", "refused"} => conns[msgs[v.msg].conn].state = "connecting"

\* What an endpoint keeps of its connections agrees, whatever order events
\* come in: the pointers between conns and msg endpoints, the count of those
\* being set up, and the state in which an event finds its conn.
Bookkeeping == TypeOK /\ ConnectingCount /\ Owned /\ EventsExpected

\* m and its other end are both CONNECTED.
Joined(m) ==
    LET o == msgs[m].other IN
    /\ o # 0 /\ msgs[m].own # 0
    /\ conns[msgs[m].conn].state = "connected" /\ conns[msgs[o].conn].state = "connected"

\* The two conns of a link that both ends see as CONNECTED are each other's:
\* each names the other endpoint and the process that has it now, and no more
\* than one of the requests of a pair ends that way.
FacingEachOther ==
    \A m \in Msg : Joined(m) =>
        LET a == conns[msgs[m].conn] b == conns[msgs[msgs[m].other].conn] IN
        /\ msgs[msgs[m].other].other = m
        /\ a.peer = b.own /\ b.peer = a.own
        /\ a.pid = pid[b.own] /\ b.pid = pid[a.own]

\* e reads a request of a process that has since died.
ReadsLate(e) ==
    /\ eq[e] # << >> /\ eq'[e] # eq[e]
    /\ Head(eq[e]).event = "connreq" /\ Head(eq[e]).pid # pid[Head(eq[e]).from]

\* A link that both ends see as CONNECTED is only ended by a failure, a close
\* or the removal of the address: a request of the same process that crossed
\* with it, or was left over from before, is rejected (RXM_REJECT_EALREADY)
\* and does not replace it.  The request of an earlier process does, if it
\* arrives that late: remote_pid only tells that it is another's.
LinksLast ==
    [][\A m \in Msg : Joined(m) =>
        \/ faults' # faults
        \/ \E e \in Ep : ReadsLate(e)
        \/ msgs'[m].other = msgs[m].other /\ conns'[msgs[m].conn].state = "connected"]_vars

\* An endpoint that keeps asking is connected in the end, whatever crossed,
\* failed or was rejected before: both ends of every pair that is wanted stay
\* CONNECTED over one link.
Connects ==
    \A e \in Ep, p \in Ep :
        <>[](<<e, p>> \in setup.wants =>
                idx[e][p] # 0 /\ conns[idx[e][p]].state = "connected" /\ Joined(conns[idx[e][p]].msg))

\* What rxm_conn.c:442 says of rxm_get_conn: when it returns success, the conn
\* is valid, that is allocated, CONNECTED and the peer's.
ReturnedConn ==
    \A e \in Ep : call[e].at = "ok" =>
        LET c == conns[call[e].conn] IN
        c.own = e /\ c.peer = call[e].peer /\ c.state = "connected"
=============================================================================
