--------------------------- MODULE ResponseTrace ---------------------------
(***************************************************************************)
(* What proxy/chain.go records of a response from its events: the items,   *)
(* in the order of the response, whatever the order of the events was.     *)
(* Output indexes count from 1 here.                                       *)
(***************************************************************************)
EXTENDS Integers, Sequences, FiniteSets

\* A text that is not given
Absent == ""

\* f with k going to v
Put(f, k, v) == [x \in DOMAIN f \cup {k} |-> IF x = k THEN v ELSE f[x]]

NewTrace == [id |-> 0, output |-> <<>>, args |-> <<>>, byIndex |-> <<>>, byCall |-> <<>>]

\* mergeOutputItem: what the later one says counts.
MergeOutputItem(previous, next) ==
  [f \in DOMAIN previous |-> IF next[f] # Absent THEN next[f] ELSE previous[f]]

\* (variant) every event brings an item of its own
AppendOutputItem(t, index, item) ==
  [t EXCEPT !.output = Append(@, item), !.byIndex = Put(@, index, Len(t.output) + 1)]

\* Where an item is recorded already; otherwise behind the others.
Place(t, index, item) ==
  IF index \in DOMAIN t.byIndex THEN t.byIndex[index]
  ELSE IF item.call \in DOMAIN t.byCall THEN t.byCall[item.call]
  ELSE Len(t.output) + 1

UpsertOutputItem(t, index, item) ==
  LET pos == Place(t, index, item) IN
  [t EXCEPT !.output = IF pos \in DOMAIN @ THEN [@ EXCEPT ![pos] = MergeOutputItem(t.output[pos], item)]
                       ELSE Append(@, item),
            !.byIndex = Put(@, index, pos),
            !.byCall = IF item.call = Absent THEN @ ELSE Put(@, item.call, pos)]

ObserveFunctionCallArguments(t, e) ==
  LET pos == IF e.index \in DOMAIN t.byIndex THEN t.byIndex[e.index] ELSE 0 IN
  IF e.args = Absent THEN t
  ELSE [t EXCEPT !.args = Put(@, e.index, e.args),
                 !.output = IF pos # 0 /\ @[pos].args = Absent THEN [@ EXCEPT ![pos].args = e.args] ELSE @]

ObserveOutputItemDone(t, e) ==
  UpsertOutputItem(t, e.index,
    IF e.item.type = "call" /\ e.item.args = Absent /\ e.index \in DOMAIN t.args
    THEN [e.item EXCEPT !.args = t.args[e.index]] ELSE e.item)

\* The trace after each of the first items of an output.
Listed(t, output) ==
  LET after[n \in 0 .. Len(output)] ==
        IF n = 0 THEN t ELSE UpsertOutputItem(after[n - 1], n, output[n])
  IN  after

Observe(t, e) ==
  CASE e.event = "created" -> [t EXCEPT !.id = e.id]
    [] e.event = "arguments" -> ObserveFunctionCallArguments(t, e)
    [] e.event = "done" -> ObserveOutputItemDone(t, e)
    [] e.event = "completed" -> Listed([t EXCEPT !.id = e.id], e.output)[Len(e.output)]

\* The trace after each of the first events.
Recorded(events) ==
  LET after[n \in 0 .. Len(events)] ==
        IF n = 0 THEN NewTrace ELSE Observe(after[n - 1], events[n])
  IN  after

\* sort.Ints: the n-th is the one with n that are not greater.
Nth(S, n) == CHOOSE x \in S : Cardinality({y \in S : y <= x}) = n
Sorted(S) == [n \in 1 .. Cardinality(S) |-> Nth(S, n)]

OutputInOrder(t) ==
  LET indices == Sorted(DOMAIN t.byIndex)
      rest == Sorted(DOMAIN t.output \ {t.byIndex[n] : n \in DOMAIN t.byIndex})
  IN  [n \in DOMAIN indices |-> t.output[t.byIndex[indices[n]]]]
        \o [n \in DOMAIN rest |-> t.output[rest[n]]]

-----------------------------------------------------------------------------
(* The events of a response                                                *)

Message(n) == [type |-> "message", call |-> Absent, args |-> Absent, text |-> n]
Call(n) == [type |-> "call", call |-> n, args |-> n, text |-> Absent]

\* Responses of three items.
Responses == [1 .. 3 -> BOOLEAN]
ItemsOf(r) ==
  [n \in 1 .. 3 |-> LET key == <<"a", "b", "c">>[n] IN IF r[n] THEN Call(key) ELSE Message(key)]

Bare(item) == [item EXCEPT !.args = Absent]

Created == [event |-> "created", id |-> 1]
Completed(output) == [event |-> "completed", id |-> 1, output |-> output]
Done(n, item) == [event |-> "done", index |-> n, item |-> item]
Arguments(n, args) == [event |-> "arguments", index |-> n, args |-> args]

\* The events of the items; those of the calls in apart end without their
\* arguments, for which there is an event of its own.
Ended(items, apart) ==
  {Done(n, IF n \in apart THEN Bare(items[n]) ELSE items[n]) : n \in DOMAIN items}
    \cup {Arguments(n, items[n].args) : n \in apart}

Arranged(S) == {s \in [1 .. Cardinality(S) -> S] : \A a, b \in DOMAIN s : s[a] = s[b] => a = b}

Calls(items) == {n \in DOMAIN items : items[n].type = "call"}

\* Every item of a response is recorded once, in the order of the response and
\* with its arguments, in whatever order the items end and the arguments come;
\* the last event may have all the items once more.
InOrder(r) ==
  LET items == ItemsOf(r) IN
  \A apart \in SUBSET Calls(items), whole \in {<<>>, items} : \A said \in Arranged(Ended(items, apart)) :
    LET events == <<Created>> \o said \o <<Completed(whole)>> IN
    OutputInOrder(Recorded(events)[Len(events)]) = items
=============================================================================
