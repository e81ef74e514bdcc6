---------------------------- MODULE HostValues ----------------------------
(***************************************************************************)
(* What the host driver does with data: a handler's result becomes a VM     *)
(* value for the journal, a journaled value becomes a result again, and a    *)
(* transport's result is read as the deliveries it hints at.                 *)
(*                                                                          *)
(* A JavaScript value is <<"null">>, <<"bool", b>>, <<"num", n>>,            *)
(* <<"big", n>>, <<"frac", text>>, <<"str", s>>, <<"arr", values>> or        *)
(* <<"obj", a function from property names to values>>; a VM value is        *)
(* <<"unit">>, <<"bool", b>>, <<"int", n>>, <<"string", s>>,                 *)
(* <<"list", values>>, <<"record", fields>> or <<"variant", tag, payload>>.  *)
(***************************************************************************)
EXTENDS Integers, Sequences, SequencesExt

CONSTANTS
  Js,       \* the JavaScript values of the instance, with their parts
  SafeMax,  \* the largest safe integer of JavaScript, in the instance
  Nothing   \* nothing there; and no request, no replay

---------------------------------------------------------------------------
(* Conversions *)

jsToValue[x \in Js] ==
  CASE x[1] = "null" -> <<"unit">>
    [] x[1] = "bool" -> x
    [] x[1] \in {"num", "big"} -> <<"int", x[2]>>
    [] x[1] \in {"str", "frac"} -> <<"string", x[2]>>
    [] x[1] = "arr" -> <<"list", [i \in DOMAIN x[2] |-> jsToValue[x[2][i]]]>>
    [] x[1] = "obj" -> IF {"tag", "payload"} \subseteq DOMAIN x[2]
                       THEN <<"variant", x[2].tag, jsToValue[x[2].payload]>>
                       ELSE <<"record", [f \in DOMAIN x[2] |-> jsToValue[x[2][f]]]>>

Value == {jsToValue[x] : x \in Js}

\* The variant's tag is kept as the handler gave it.
valueToJs[v \in Value] ==
  CASE v[1] = "unit" -> <<"null">>
    [] v[1] = "bool" -> v
    [] v[1] = "int" -> IF v[2] \in -SafeMax .. SafeMax THEN <<"num", v[2]>> ELSE <<"big", v[2]>>
    [] v[1] = "string" -> <<"str", v[2]>>
    [] v[1] = "list" -> <<"arr", [i \in DOMAIN v[2] |-> valueToJs[v[2][i]]]>>
    [] v[1] = "record" -> <<"obj", [f \in DOMAIN v[2] |-> valueToJs[v[2][f]]]>>
    [] v[1] = "variant" -> <<"obj", [f \in {"tag", "payload"} |-> IF f = "tag" THEN v[2] ELSE valueToJs[v[3]]]>>

---------------------------------------------------------------------------
(* Deliveries. Each is a tuple that starts with its kind. *)

IsObject(x) == x[1] \in {"obj", "arr"}
IsName(x)   == x[1] = "str" /\ x[2] # ""
At(x, f)    == IF x[1] = "obj" /\ f \in DOMAIN x[2] THEN x[2][f] ELSE <<"undefined">>
Text(x)     == IF x[1] = "str" THEN x[2] ELSE Nothing

Invalid == <<"invalid">>  \* it makes the driver throw
Skipped == <<"skipped">>

Disconnect(d) == IF IsName(At(d, "node")) THEN <<"disconnect", At(d, "node")[2], Text(At(d, "reason"))>> ELSE Invalid

\* Only a number is an integer for JavaScript: a BigInt tick is left out.
NodeStatus(ns) ==
  IF IsName(At(ns, "node")) /\ IsName(At(ns, "status"))
  THEN <<"nodeStatus", At(ns, "node")[2], At(ns, "status")[2], Text(At(ns, "reason")),
         IF At(ns, "lastSeenTick")[1] = "num" THEN At(ns, "lastSeenTick")[2] ELSE Nothing,
         Text(At(ns, "lastStateHash"))>>
  ELSE Invalid

ToProcess(c) ==
  IF At(c, "message") # <<"undefined">> THEN <<"message", At(c, "pid")[2], jsToValue[At(c, "message")]>>
  ELSE IF IsName(At(c, "key"))
  THEN <<"reply", At(c, "pid")[2], At(c, "key")[2],
         IF At(c, "result") = <<"undefined">> THEN <<"unit">> ELSE jsToValue[At(c, "result")]>>
  ELSE Skipped

normalizeDeliveryCandidate(c) ==
  IF IsObject(At(c, "disconnect")) THEN Disconnect(At(c, "disconnect"))
  ELSE IF IsObject(At(c, "nodeStatus")) THEN NodeStatus(At(c, "nodeStatus"))
  ELSE IF IsName(At(c, "pid")) THEN ToProcess(c)
  ELSE Skipped

\* The deliveries of a transport's result, <<Invalid>> if one makes it throw.
transportDeliveriesFromResult(r) ==
  LET list == At(r, "deliveries")
      candidates == IF list[1] = "arr" THEN list[2]
                    ELSE IF At(r, "delivery") # <<"undefined">> THEN <<At(r, "delivery")>>
                    ELSE <<>>
      read == [i \in DOMAIN candidates |-> normalizeDeliveryCandidate(candidates[i])]
  IN  IF Contains(read, Invalid) THEN <<Invalid>>
      ELSE SelectSeq(read, LAMBDA d : d # Skipped)

\* The journal keeps the deliveries of a result.
Faithful(r) ==
  transportDeliveriesFromResult(valueToJs[jsToValue[r]]) = transportDeliveriesFromResult(r)
=============================================================================
