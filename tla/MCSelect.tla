------------------------------ MODULE MCSelect --------------------------------
(* Finite instances of Select for TLC. *)
EXTENDS Select, TLC

CONSTANTS p, q, r

Trio == {p, q, r}
S(c) == Op(c, "send")
R(c) == Op(c, "recv")
Handles(t, list) == {<<t, list[k].chan, list[k].side>> : k \in DOMAIN list}

Flavors == ("a" :> "array") @@ ("z" :> "zero")
        @@ ("l" :> "list") @@ ("f" :> "after") @@ ("k" :> "tick") @@ ("n" :> "never")
        @@ ("b" :> "list") @@ ("c" :> "list")
Names == DOMAIN Flavors
UnitCap == [c \in {"a"} |-> 1]

\* A bounded and a zero-capacity channel: p receives from both, q sends to both, r interferes.
Mixed == Handles(p, <<R("a"), R("z")>>) \cup Handles(q, <<S("a"), S("z")>>)
         \cup Handles(r, <<S("z"), R("a")>>)

\* An unbounded channel and the timers: q sends and shares the tick with p.
TimedHandles == Handles(p, <<R("f"), R("k"), R("l"), R("n")>>) \cup Handles(q, <<R("k"), S("l")>>)

\* Two unbounded channels: p asks both, q takes the message of one, r sends to the other or
\* lets go of it.
Asking == Handles(p, <<R("b"), R("c")>>) \cup Handles(q, <<R("c")>>)
          \cup Handles(r, <<S("b"), S("c")>>)

\* Somebody has sent to one of them.
Stocked == {"c"}

Everywhere == {Mixed, TimedHandles, Asking}
OnlyAsking == {Asking}

AllCalls ==
  (p :> {SelectTimeout(<<R("a"), R("z")>>),
         SelectTimeout(<<R("f"), R("k")>>), BlockingSelect(<<R("l"), R("n")>>),
         SelectTimeout(<<R("l"), S("l")>>), SelectTimeout(<<>>),
         RecvTimeout("l"), RecvTimeout("n"), Iter("l"),
         TrySelect(<<R("b"), R("c")>>), Recv("b")})
  @@ (q :> {BlockingSelect(<<S("a"), S("z")>>),
            TrySelect(<<S("l"), R("k")>>), BlockingSelect(<<S("l")>>),
            TryRecv("c")})
  @@ (r :> {BlockingSelect(<<S("z")>>), TryRecv("a"), TrySend("b")})

AllDrops == Handles(q, <<S("a"), S("z")>>) \cup Handles(r, <<S("z")>>)
            \cup Handles(p, <<S("l"), R("l")>>) \cup Handles(q, <<S("l"), R("k")>>)
            \cup Handles(r, <<S("b")>>)
AllClones == Handles(p, <<S("l")>>)
===============================================================================
