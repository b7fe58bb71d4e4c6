--------------------------- MODULE PreserveSplit ---------------------------
(***************************************************************************)
(* Where a compaction cuts the history: the boundary computation of        *)
(* src/src/builtin_tools/compact_tool.cpp (resolve_preserve_split and its  *)
(* helpers) and the history it yields (soul_apply_preserve_split).         *)
(*                                                                         *)
(* A message keeps its role, the number of tool calls an assistant message *)
(* carries, and a text that stands for its content.  A cut c (0-based, as  *)
(* in the code) separates the first c messages from the others.            *)
(***************************************************************************)
EXTENDS Integers, Sequences, FiniteSets

Message(role, calls, text) == [role |-> role, calls |-> calls, text |-> text]
User(text) == Message("user", 0, text)
Assistant(calls) == Message("assistant", calls, "answer")
ToolResult == Message("tool", 0, "result")

LargestOf(S) == CHOOSE x \in S : \A y \in S : y <= x

is_user_or_assistant(m) == m.role \in {"user", "assistant"}

\* Tool calls still without a result after the first i messages: the sum of
\* message_tool_call_delta over them.
in_progress(h, i) ==
    Cardinality({p \in (1..i) \X (1..LargestOf({h[l].calls : l \in 1..i} \union {0})) :
                    h[p[1]].role = "assistant" /\ p[2] <= h[p[1]].calls})
        - Cardinality({j \in 1..i : h[j].role = "tool"})

unbalanced(h) == \E i \in 1..Len(h) : in_progress(h, i) < 0

\* The cuts no call/result pair crosses; the end of the history always counts.
balanced_cut_indices(h) == {i \in 0..Len(h) : in_progress(h, i) = 0} \union {Len(h)}

\* Mutant: one message too few is preserved.
depth_cuts_short(h, depth) ==
    {c \in 0..(Len(h) - 1) :
        /\ is_user_or_assistant(h[c + 1])
        /\ Cardinality({j \in (c + 1)..Len(h) : is_user_or_assistant(h[j])}) = depth - 1}

\* The cuts that leave exactly depth user or assistant messages after them,
\* one of which comes first.
depth_cuts(h, depth) ==
    {c \in 0..(Len(h) - 1) :
        /\ is_user_or_assistant(h[c + 1])
        /\ Cardinality({j \in (c + 1)..Len(h) : is_user_or_assistant(h[j])}) = depth}

Nothing == [compact |-> FALSE, start |-> 0, keep_first |-> FALSE, fallback |-> FALSE]

\* compact_largest_cut_at_most
snap_left(h, c) == LargestOf({k \in balanced_cut_indices(h) : k <= c})

\* The first message is copied in front of the tail unless an equal message is
\* preserved already.
keep_first_message(h, c) == \A i \in (c + 1)..Len(h) : h[i] # h[1]

\* Mutant: the boundary steps back by one message.
recut_by_one(h, c) ==
    [compact |-> TRUE, start |-> c - 1, keep_first |-> FALSE, fallback |-> FALSE]

\* When the primacy copy leaves the compacted region at an unbalanced cut, the
\* region is cut again, below the boundary, and the copy is given up.
recut(h, c) ==
    LET smaller == {k \in balanced_cut_indices(h) : k < c}
    IN  [compact |-> TRUE,
         start |-> IF smaller # {} THEN LargestOf(smaller) ELSE 1,
         keep_first |-> FALSE,
         fallback |-> smaller = {}]

split_at(h, c) ==
    LET keep == keep_first_message(h, c)
        to_compact_len == IF keep /\ c > 0 THEN c - 1 ELSE c
    IN  IF to_compact_len \notin balanced_cut_indices(h) THEN recut(h, c)
        ELSE [compact |-> to_compact_len > 0, start |-> c, keep_first |-> keep,
              fallback |-> FALSE]

\* A split that leaves nothing to summarize is no compaction at all.
resolve_preserve_split(h, depth) ==
    IF Len(h) = 0 \/ depth <= 0 \/ depth_cuts(h, depth) = {} \/ unbalanced(h)
    THEN Nothing
    ELSE LET c == CHOOSE k \in depth_cuts(h, depth) : TRUE
             s == split_at(h, snap_left(h, c))
         IN  IF s.compact /\ s.start > 0 THEN s ELSE Nothing

\* The summary takes the place of the compacted region.
soul_apply_preserve_split(h, s) ==
    <<User("summary")>> \o (IF s.keep_first THEN <<h[1]>> ELSE <<>>)
        \o SubSeq(h, s.start + 1, Len(h))

----------------------------------------------------------------------------
\* Every tool call of the history is answered by the tool results that follow
\* its message at once, and there is no other tool result.
Paired(h) ==
    /\ \A i \in 1..Len(h) :
          h[i].role = "assistant" =>
             /\ i + h[i].calls <= Len(h)
             /\ \A j \in (i + 1)..(i + h[i].calls) : h[j].role = "tool"
    /\ \A j \in 1..Len(h) :
          h[j].role = "tool" =>
             \E i \in 1..(j - 1) : h[i].role = "assistant" /\ j <= i + h[i].calls

\* The messages a depth counts.
Voices(h) == Cardinality({i \in 1..Len(h) : is_user_or_assistant(h[i])})
============================================================================
