------------------------------- MODULE Parser -------------------------------
(***************************************************************************)
(* The generic reading of a statement (cliexec.go: applyTokens): one word  *)
(* after another along the statement tree.  The state of the walk is       *)
(*   chain: the grammar nodes down to the current one (Node.Parent),       *)
(*   at: the object of the configuration that is written to,               *)
(*   next: what the next word is ("after" behind a transparent parameter's *)
(*   value, where only a keyword may follow), tree: the configuration.     *)
(* Going back up the chain for a keyword leaves "at" where it was.         *)
(***************************************************************************)
EXTENDS ConfigTypes, Grammar, FiniteSetsExt

CONSTANTS Num,      \* the words that read as integers, and what they mean
          CoreList  \* the words that read as core or VLAN lists, and their members

Numbers == DOMAIN Num
Flags == {"true", "false"}
IsName(w) == w \notin Numbers \cup Flags   \* typedScalar leaves it a string

Fits(w, type) ==
    CASE type = "number" -> w \in Numbers
      [] type = "flag" -> w \in Flags
      [] type = "cores" -> w \in DOMAIN CoreList
      [] type = "text" -> w \notin Flags

Field(st) == Append(st.at, Last(st.chain).field)

RECURSIVE Walk(_, _, _)
Continue(st, t, next, rest, set) ==
    Walk([st EXCEPT !.tree = t, !.next = next], rest, set)

\* An element of an array, by its identity.
ElementWord(st, w, rest, set) ==
    LET p == Field(st)
        node == Last(st.chain)
        named == IF node.type = "number" THEN w \in Numbers ELSE IsName(w)
    IN IF ~set /\ ~Holds(st.tree, p, w) THEN Refused
       ELSE IF ~set /\ rest = <<>> THEN RemoveElem(st.tree, p, w)
       ELSE IF ~named THEN Refused
       ELSE IF rest = <<>> /\ node.sort = "array" THEN EnsureElem(st.tree, p, w)
       ELSE Walk([st EXCEPT !.tree = EnsureElem(@, p, w), !.at = Append(p, w),
                            !.next = "keyword"], rest, set)

\* The value of a leaf.
ValueWord(st, w, rest, set) ==
    LET p == Field(st)
        type == Last(st.chain).type
        value == IF type = "cores" THEN CoreList[w] ELSE <<w>>
        kept == SelectSeq(Val(st.tree, p), LAMBDA v :
                    w \notin DOMAIN CoreList \/ v \notin ToSet(CoreList[w]))
        t == CASE set -> Write(st.tree, p, value)
               [] ~set /\ type = "cores" -> Write(st.tree, p, kept)
               [] ~set /\ type # "cores" -> Cut(st.tree, p)
    IN IF (set /\ ~Fits(w, type)) \/ (~set /\ ~Has(st.tree, p)) THEN Refused
       ELSE IF rest = <<>> THEN t
       ELSE Continue(st, t, "keyword", rest, set)

\* The value of a transparent parameter.
ScalarWord(st, w, rest, set) ==
    LET p == Field(st)
        many == Last(st.chain).sort = "list"
        t == CASE set /\ many -> Write(st.tree, p, Append(Val(st.tree, p), w))
               [] set /\ ~many -> Write(st.tree, p, <<w>>)
               [] ~set /\ many -> TakeFrom(st.tree, p, w)
               [] ~set /\ ~many -> Cut(st.tree, p)
    IN IF (set /\ ~IsName(w)) \/ (~set /\ ~Has(st.tree, p)) THEN Refused
       ELSE IF rest = <<>> THEN t
       ELSE Continue(st, t, "after", rest, set)

\* requireScalarBeforeKeyword: a keyword right where the value is still due.
Premature(st, depth) ==
    /\ st.next = "keyword"
    /\ depth = Len(st.chain) /\ Last(st.chain).sort \in {"scalar", "list"}
    /\ ~Has(st.tree, Field(st))

\* A keyword of the current node, or else of the nearest node above it.
KeywordWord(st, w, depth, rest, set) ==
    LET child == CHOOSE k \in ToSet(st.chain[depth].kids) : k.word = w
        key == Append(st.at, JsonKey(w))
        down == [st EXCEPT !.chain = Append(SubSeq(@, 1, depth), child),
                           !.next = "keyword"]
        missing == ~set /\ ~Has(st.tree, key)
    IN IF Premature(st, depth) THEN Refused
       ELSE IF rest = <<>> /\ w = "disable"
            THEN Write(st.tree, Append(st.at, "enabled"), <<"false">>)
       ELSE IF rest = <<>> /\ ~set THEN IF missing THEN Refused ELSE Cut(st.tree, key)
       ELSE CASE child.sort = "array" ->
                   IF missing THEN Refused ELSE Continue(down, st.tree, "element", rest, set)
              [] child.sort = "identity" ->
                   IF missing THEN Refused ELSE Continue(down, st.tree, "marker", rest, set)
              [] child.sort = "value" -> Continue(down, st.tree, "value", rest, set)
              [] child.sort \in {"scalar", "list"} ->
                   Continue(down, st.tree, "keyword", rest, set)
              [] child.sort = "object" ->
                   IF missing THEN Refused
                   ELSE Walk([down EXCEPT !.at = key, !.tree = Open(@, key)], rest, set)

Walk(st, words, set) ==
    IF words = <<>> THEN Refused                   \* the statement is incomplete
    ELSE LET w == Head(words)
             rest == Tail(words)
             node == Last(st.chain)
             depths == {i \in DOMAIN st.chain :
                            \E k \in ToSet(st.chain[i].kids) : k.word = w}
         IN CASE st.next = "marker" ->
                   IF w = node.type THEN Continue(st, st.tree, "element", rest, set)
                   ELSE Refused
              [] st.next = "element" -> ElementWord(st, w, rest, set)
              [] st.next = "value" -> ValueWord(st, w, rest, set)
              [] st.next \in {"keyword", "after"} ->
                   IF depths # {} THEN KeywordWord(st, w, Max(depths), rest, set)
                   ELSE IF st.next = "keyword" /\ node.sort \in {"scalar", "list"}
                        THEN ScalarWord(st, w, rest, set)
                   ELSE Refused

Generic(t, s, set) ==
    Walk([chain |-> <<Root>>, at |-> <<>>, next |-> "keyword", tree |-> t], s, set)
=============================================================================
