--------------------------- MODULE MCParsedFetch ---------------------------
(* An instance of ParsedFetch for TLC.                                     *)
EXTENDS ParsedFetch

(* Dates and times around the bounds 2 and 4: record 3 is a journal dated  *)
(* after the day it was entered, 5 and 6 lack a field.                     *)
MCDateOf == <<1, 2, 3, 4, Unknown, 3>>
MCModifiedOf == <<2, 4, 1, 2, 3, Unknown>>

MCOrgs == {{}, {1, 2, 3}, {2, 4, 6}, {1, 3, 5, 6}}

(* The ways to put a set of at most four records on pages of at most two.  *)
Cut(S) ==
  LET n == Cardinality(S)
      Part(a, b) == {m \in S : Cardinality({k \in S : k < m}) \in a..b}
      Sizes == {sizes \in UNION {[1..k -> 1..2] : k \in 0..n} :
                  FoldFunction(LAMBDA a, b : a + b, 0, sizes) = n}
      Ahead(sizes, i) ==
        FoldFunctionOnSet(LAMBDA a, b : a + b, 0, sizes, 1..(i - 1))
  IN {[i \in DOMAIN sizes |->
         Part(Ahead(sizes, i), Ahead(sizes, i) + sizes[i] - 1)] :
        sizes \in Sizes}

MCRemotes == UNION {Cut(S) : S \in UNION {SUBSET org_ : org_ \in MCOrgs}}

Call(api, path_) ==
  [api |-> api, path |-> path_, ignored |-> FALSE, dated |-> TRUE,
   expand |-> FALSE, start |-> 2, end |-> 4,
   after |-> Unbounded, before |-> Unbounded]

MCCalls ==
  {[Call("business", p) EXCEPT !.ignored = i] :
     p \in {"page", "offset", "single"}, i \in BOOLEAN}
  \cup {[Call("business", "page") EXCEPT !.dated = FALSE],
        [Call("business", "page") EXCEPT !.end = 2]}
  \cup {[Call(a, p) EXCEPT !.ignored = i, !.after = x, !.before = y] :
          a \in {"fetch", "extras"}, p \in {"page", "offset", "single"},
          i \in BOOLEAN, x \in {2, Unbounded}, y \in {4, Unbounded}}
  \cup {[Call("extras", "single") EXCEPT !.expand = TRUE, !.after = x] :
          x \in {2, Unbounded}}
============================================================================
