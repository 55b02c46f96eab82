----------------------------- MODULE MCRxdRecv -------------------------------
(***************************************************************************)
(* RxdRecv with two peers and small sets of streams and calls.             *)
(***************************************************************************)
EXTENDS RxdRecv

P1 == "p1"
P2 == "p2"
MCPeers == {P1, P2}

Tagged(tag, n) == [tag |-> tag, segs |-> n]
Plain(n) == [tag |-> Untagged, segs |-> n]
From(x, y) == [p \in MCPeers |-> IF p = P1 THEN x ELSE y]

C(kind, ctx, q, peer, tag, ignore, len, multi) ==
    [kind |-> kind, ctx |-> ctx, q |-> q, peer |-> peer, tag |-> tag, ignore |-> ignore,
     len |-> len, multi |-> multi]
TRecv(ctx, peer, tag, ignore, len) == C("recv", ctx, "tag", peer, tag, ignore, len, FALSE)
Recv1(ctx, peer, len) == C("recv", ctx, "msg", peer, {}, {}, len, FALSE)
Multi(ctx, len) == C("recv", ctx, "msg", AnyAddr, {}, {}, len, TRUE)
OnTag(kind, ctx, tag, ignore) == C(kind, ctx, "tag", AnyAddr, tag, ignore, 3, FALSE)
CancelOf(ctx) == C("cancel", ctx, "msg", AnyAddr, {}, {}, 0, FALSE)

\* Tags, masks and directed receives.
Tags ==
    {[stream |-> From(<<Tagged({}, 2), Tagged({"x"}, 1), Tagged({"x"}, 2)>>, <<Tagged({"x"}, 1), Tagged({}, 1)>>),
      calls |-> {TRecv("r1", P1, {}, {"x"}, 2), TRecv("r2", AnyAddr, {"x"}, {}, 2),
                 TRecv("r3", AnyAddr, {}, {"x"}, 1), TRecv("r4", P2, {}, {"x"}, 2), CancelOf("r3")}]}

\* A multi-receive buffer beside ordinary receives.
MultiReceive ==
    {[stream |-> From(<<Plain(1), Plain(2), Plain(1)>>, <<Plain(1), Plain(1)>>),
      calls |-> {Multi("m1", 6), Recv1("r1", P1, 1), CancelOf("m1")}]}

\* Peek, claim and discard, with one tagged message waiting at a time.
PeekClaim ==
    {[stream |-> From(s, <<Plain(1)>>),
      calls |-> {OnTag("peek", "k1", {}, {"x"}), OnTag("peek_claim", "k2", {}, {}),
                 OnTag("claim", "k2", {}, {}), TRecv("r1", AnyAddr, {}, {"x"}, 1), Recv1("r2", P1, 2)}] :
        s \in {<<Plain(2), Tagged({}, 1)>>, <<Tagged({}, 2), Plain(1)>>}}
    \cup
    {[stream |-> From(<<Plain(2), Tagged({}, 1)>>, <<>>),
      calls |-> {OnTag("peek_discard", "k1", {}, {"x"}), OnTag("peek_claim", "k2", {}, {}),
                 OnTag("claim_discard", "k2", {}, {}), Recv1("r2", P1, 2)}]}

Receives == Tags \cup MultiReceive \cup PeekClaim

\* For what a particular sequence of calls leads to.
ClaimBetween ==
    {[stream |-> From(<<Tagged({}, 1), Tagged({"x"}, 1)>>, <<>>),
      calls |-> {OnTag("peek_claim", "k1", {}, {}), OnTag("claim", "k1", {}, {})}]}
WaitingForMulti ==
    {[stream |-> From(<<Plain(2)>>, <<>>), calls |-> {Multi("m1", 3)}]}
=============================================================================
