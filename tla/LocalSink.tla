----------------------------- MODULE LocalSink -----------------------------
(***************************************************************************)
(* The path arithmetic of LocalDirSink (xero-gcs/src/sink.rs), the sink of *)
(* a dry run.  A path is what std::path sees of it: whether it starts with *)
(* "/", and its segments, where "." and ".." stand for themselves and      *)
(* every other segment is a name.                                          *)
(***************************************************************************)
EXTENDS Integers, SequencesExt

Relative(segments) == [absolute |-> FALSE, segments |-> segments]
Absolute(segments) == [absolute |-> TRUE, segments |-> segments]

(* segments without the ".".                                               *)
Undotted(segments) ==
  LET kept[i \in 0..Len(segments)] ==
        IF i = 0 THEN <<>>
        ELSE IF segments[i] = "." THEN kept[i - 1]
        ELSE Append(kept[i - 1], segments[i])
  IN  kept[Len(segments)]

(* Path::components: a "." is dropped, except the first one of a relative  *)
(* path, and a leading "/" is a component of its own.                      *)
Components(path) ==
  LET first == IF path.absolute THEN <<"/">>
               ELSE IF path.segments # <<>> /\ path.segments[1] = "." THEN <<".">>
               ELSE <<>>
  IN  first \o Undotted(path.segments)

(* Path::join: an absolute key replaces the root.                          *)
Join(root, key) ==
  IF key.absolute THEN key
  ELSE [root EXCEPT !.segments = @ \o key.segments]

(* PathBuf::pop: "/" has no parent and stays.                              *)
Popped(resolved) == IF resolved = <<"/">> THEN resolved ELSE Front(resolved)

(* One turn of the loop in resolve_within_root for a root of n components: *)
(* ".." is refused unless the walk is deeper than the root.                *)
WalkComponent(n, walk, component) ==
  CASE walk.escapes \/ component = "." -> walk
    [] ~walk.escapes /\ component = ".." ->
         IF walk.depth <= n THEN [walk EXCEPT !.escapes = TRUE]
         ELSE [walk EXCEPT !.depth = @ - 1, !.resolved = Popped(@)]
    [] OTHER -> [walk EXCEPT !.depth = @ + 1,
                             !.resolved = Append(@, component)]

WalkOver(n, components) ==
  LET walk[i \in 0..Len(components)] ==
        IF i = 0 THEN [escapes |-> FALSE, depth |-> 0, resolved |-> <<>>]
        ELSE WalkComponent(n, walk[i - 1], components[i])
  IN  walk[Len(components)]

Walk(root, key) ==
  WalkOver(Len(Components(root)), Components(Join(root, key)))

(* Mutant of ResolvesWithinRoot: without the starts_with test.             *)
ResolvesSomewhere(root, key) == ~Walk(root, key).escapes

(* resolve_within_root(key) is Ok.                                         *)
ResolvesWithinRoot(root, key) ==
  LET walk == Walk(root, key) IN
  ~walk.escapes /\ IsPrefix(Components(root), walk.resolved)

(* The path it returns then.                                               *)
Resolved(root, key) ==
  LET resolved == Walk(root, key).resolved IN
  IF resolved # <<>> /\ Head(resolved) = "/" THEN Absolute(Tail(resolved))
  ELSE Relative(resolved)
----------------------------------------------------------------------------
(* Where the operating system ends up when it follows segments from the    *)
(* directory start: "." stays, ".." goes to the parent ("/" is its own).   *)
Enter(at, segment) ==
  CASE segment = "." -> at
    [] segment = ".." -> IF at = <<>> THEN at ELSE Front(at)
    [] OTHER -> Append(at, segment)

FollowFrom(start, segments) ==
  LET at[i \in 0..Len(segments)] ==
        IF i = 0 THEN start ELSE Enter(at[i - 1], segments[i])
  IN  at[Len(segments)]

Follow(dir, path) ==
  FollowFrom(IF path.absolute THEN <<>> ELSE dir, path.segments)
============================================================================
