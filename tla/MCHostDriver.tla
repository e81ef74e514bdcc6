--------------------------- MODULE MCHostDriver ---------------------------
(* A small instance of HostDriver: a program that asks for an awaited reply, *)
(* a transport, both, or an effect nobody handles; handlers that give a plain *)
(* result, hints of deliveries, a hint that is refused, and results whose     *)
(* deliveries the journal does not keep.                                     *)
EXTENDS HostDriver, TLC

Str(s) == <<"str", s>>
Obj(f) == <<"obj", f>>

RECURSIVE Parts(_)
Parts(x) ==
  {x} \union
    CASE x[1] = "obj" -> UNION {Parts(x[2][f]) : f \in DOMAIN x[2]}
      [] x[1] = "arr" -> UNION {Parts(x[2][i]) : i \in DOMAIN x[2]}
      [] OTHER -> {}

Delivery(d) == Obj([delivery |-> d])
Main(m)     == Obj([pid |-> Str("main"), message |-> m])
Tick(n)     == Obj([nodeStatus |-> Obj([node |-> Str("n"), status |-> Str("up"), lastSeenTick |-> n])])
Broken      == Obj([disconnect |-> Obj([node |-> Str("n")])])

Plain   == <<"num", 1>>
Hints   == Obj([deliveries |-> <<"arr", <<Broken, Obj([pid |-> Str("main"), key |-> Str("k")]), Main(<<"frac", "1.5">>), Tick(Plain)>>>>])
Refused == Delivery(Obj([disconnect |-> Obj([reason |-> Str("r")])]))
Tagged  == Obj([tag |-> Str("Ok"), payload |-> <<"null">>, delivery |-> Main(Plain)])
BigTick == Delivery(Tick(<<"big", 1>>))

MCResults == {Plain, Hints, Refused, Tagged}
LossyResults == {Tagged, BigTick}

\* The parts of the results, and what the journal makes of them.
MCJs == UNION {Parts(r) : r \in MCResults \union {BigTick, Main(Str("1.5"))}}

Await(key)     == [kind |-> "await_reply", pid |-> "p1", key |-> key, type_ |-> "http.get", payloadPid |-> Nothing]
Transport(pid) == [kind |-> "transport", pid |-> pid, key |-> "", type_ |-> "send", payloadPid |-> Nothing]
Unhandled      == [Await("k") EXCEPT !.type_ = "none"]

Suspended(entries) == [status |-> "suspended", pending |-> entries]
Ended(status) == [status |-> status, pending |-> <<>>]

MCOutputs ==
  {Ended("completed"), Suspended(<<Transport(""), Await("k")>>), Suspended(<<Transport("p1")>>),
   Suspended(<<Await("")>>), Suspended(<<Await("k"), Unhandled>>)}
OneRound == {Ended("completed"), Suspended(<<Transport("p1")>>)}
=============================================================================
