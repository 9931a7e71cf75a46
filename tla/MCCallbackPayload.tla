------------------------- MODULE MCCallbackPayload -------------------------
(***************************************************************************)
(* Payloads for TLC: every file object on its own, and every form of up to *)
(* two fields, single or grouped in twos, over well-formed files.          *)
(***************************************************************************)
EXTENDS CallbackPayload

CONSTANTS document, f1, f2, f3

Doc == <<document>>

Names == {Doc, <<document, 1>>, <<document, 2>>}

WellFormed(f, s) ==
  [id |-> f, status |-> s, located |-> s = "complete", checksum |-> s = "complete",
   sized |-> s = "complete", hasError |-> IF s = "rejected" THEN "true" ELSE "absent",
   message |-> s = "rejected", detail |-> FALSE]

Items == {Text, WellFormed(f2, "rejected"), WellFormed(f3, "pending")}
           \cup {WellFormed(f, "complete") : f \in FileIds}

Field(name, grouped, items) == [name |-> name, grouped |-> grouped, items |-> items]

Groups == {<<>>} \cup {<<x>> : x \in Items} \cup {<<x, y>> : x, y \in Items}

Fields == {Field(n, FALSE, <<x>>) : n \in Names, x \in Items}
            \cup {Field(n, TRUE, g) : n \in Names, g \in Groups}

Ready(form) == [ready |-> TRUE, sound |-> TRUE, form |-> form]

EveryFile ==
  {[ready |-> r, sound |-> s, form |-> <<Field(Doc, g, <<x>>)>>] :
     r, s, g \in BOOLEAN, x \in {x \in File : x.id = f1}}

EveryForm == {Ready(<<x>>) : x \in Fields}
               \cup {Ready(<<x[1], x[2]>>) : x \in {x \in Fields \X Fields : x[1].name # x[2].name}}

AllPayloads == EveryFile \cup EveryForm

=============================================================================
