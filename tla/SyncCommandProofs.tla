------------------------- MODULE SyncCommandProofs -------------------------
(***************************************************************************)
(* Theorems about SyncCommand for every command line, calendar, chunk      *)
(* length and set of entities and tenants.                                 *)
(***************************************************************************)
EXTENDS SyncCommand, TLAPS

(* A command line's fields.                                                *)
LEMMA ArgsFields ==
  ASSUME args \in Args
  PROVE  /\ args.from \in Dates
         /\ args.to \in Dates
         /\ args.to < MaxDate
         /\ args.business_from \in Dates \cup {NoDate}
         /\ args.business_to \in Dates \cup {NoDate}
         /\ args.entity \subseteq Entities
         /\ args.backfill \in BOOLEAN
  BY CommandAssumption, RangeAssumption DEF ArgsType

(* A date is a number between 0 and the last date.                         *)
LEMMA DatesAreInt == \A d \in Dates : d \in Int /\ 0 <= d /\ d <= MaxDate
  BY CommandAssumption DEF Dates

(* The loop of backfill_chunks moves forward and stays among the dates.    *)
LEMMA NextStartForward ==
  ASSUME args \in Args, cursor \in Dates, cursor <= args.to
  PROVE  /\ NextStart \in Dates
         /\ cursor < NextStart
<1>1. Months = MonthsIn(args)
  BY DEF Months
<1>2. MaxDate \in Dates
  BY CommandAssumption DEF Dates
<1>3. LET next == AddMonths(cursor, Months) IN
        next = NoDate \/ (next \in Dates /\ next > cursor)
  BY <1>1, CommandAssumption
<1>4. CASE AddMonths(cursor, Months) = NoDate
  BY <1>4, <1>2, ArgsFields, DatesAreInt DEF NextStart
<1>5. CASE AddMonths(cursor, Months) # NoDate
  BY <1>5, <1>3, DatesAreInt DEF NextStart
<1>6. QED
  BY <1>4, <1>5

(* A chunk is a range that is not empty and ends before the next start.    *)
LEMMA ChunkEndInside ==
  ASSUME args \in Args, cursor \in Dates, cursor <= args.to
  PROVE  /\ ChunkEnd \in Dates
         /\ cursor <= ChunkEnd
         /\ ChunkEnd <= args.to
         /\ ChunkEnd < NextStart
         /\ \A d \in Int : d < NextStart /\ d <= args.to => d <= ChunkEnd
<1>1. args.to \in Int /\ args.to \in Dates
  BY ArgsFields, DatesAreInt
<1>2. NextStart \in Dates /\ NextStart \in Int /\ cursor < NextStart /\ cursor \in Int
  BY NextStartForward, DatesAreInt
<1>3. \A d \in Int : 0 <= d /\ d <= MaxDate => d \in Dates
  BY CommandAssumption DEF Dates
<1>4. 0 <= cursor /\ NextStart <= MaxDate /\ MaxDate \in Int
  BY <1>2, DatesAreInt, CommandAssumption
<1>5. QED
  BY <1>1, <1>2, <1>3, <1>4 DEF ChunkEnd

(* What resolve_mode anchors a range at is a date.                         *)
LEMMA AnchorType ==
  ASSUME args \in Args
  PROVE  /\ BusinessTo \in Dates
         /\ Anchor \in Dates
         /\ ModeOf \in Modes
  BY ArgsFields, CommandAssumption DEF BusinessTo, Anchor, ModeOf, Modes

(* A rolling window is two days, and the window of an accepted range is    *)
(* the range itself.                                                       *)
LEMMA RollingWindowType ==
  ASSUME args \in Args, ModeOf = "rolling_full", ~ModeRefused
  PROVE  /\ RollingWindow(Anchor, Days) \in Int \X Int
         /\ Ranged => RollingWindow(Anchor, Days)
                        = <<args.business_from, BusinessTo>>
<1>1. Anchor \in Int /\ BusinessTo \in Int
  BY AnchorType, DatesAreInt
<1>2. CASE Ranged
  <2>1. /\ args.business_from \in Int
        /\ ~(BusinessTo < args.business_from)
    BY <1>2, ArgsFields, DatesAreInt DEF ModeRefused
  <2>2. Days = BusinessTo - args.business_from + 1 /\ Anchor = BusinessTo
    BY <1>2 DEF Days, Anchor
  <2>3. QED
    BY <1>1, <2>1, <2>2 DEF RollingWindow
<1>3. CASE ~Ranged
  <2>1. Days \in Int
    BY <1>3, CommandAssumption DEF Days
  <2>2. QED
    BY <1>1, <1>3, <2>1 DEF RollingWindow
<1>4. QED
  BY <1>2, <1>3

(* A part adds one element to the parts and touches no other.              *)
LEMMA RunPartAppends ==
  ASSUME NEW mode \in Modes, NEW date \in Dates,
         NEW window \in (Int \X Int) \cup {NoDate}, NEW set \in SUBSET Entities,
         parts \in Seq(PartType), clock \in 0..MaxClock,
         RunPart(mode, date, window, set)
  PROVE  /\ parts' \in Seq(PartType)
         /\ Len(parts') = Len(parts) + 1
         /\ DOMAIN parts' = 1..(Len(parts) + 1)
         /\ \A n \in DOMAIN parts : parts'[n] = parts[n]
         /\ parts'[Len(parts) + 1].mode = mode
         /\ parts'[Len(parts) + 1].date = date
         /\ parts'[Len(parts) + 1].window = window
         /\ parts'[Len(parts) + 1].entities = set
         /\ clock' \in 0..MaxClock
<1> DEFINE part == [mode |-> mode, date |-> date, window |-> window,
                    entities |-> set, ts |-> clock']
<1>1. clock' \in 0..MaxClock
  BY CommandAssumption DEF RunPart
<1>2. part \in PartType
  BY <1>1 DEF PartType
<1>3. parts' = Append(parts, part)
  BY DEF RunPart
<1>4. /\ part.mode = mode /\ part.date = date
      /\ part.window = window /\ part.entities = set
  OBVIOUS
<1> HIDE DEF part
<1>5. QED
  BY <1>1, <1>2, <1>3, <1>4
----------------------------------------------------------------------------
(* A command starts in the invariant.                                      *)
LEMMA InitInv == CommandInit => CommandInv
<1> SUFFICES ASSUME CommandInit PROVE CommandInv
  OBVIOUS
<1> USE DEF CommandInit
<1>0. args.from \in Dates /\ args.from \in Int
  BY ArgsFields, DatesAreInt
<1>1. CommandTypeOK
  BY <1>0, CommandAssumption DEF CommandTypeOK, Statuses
<1>2. ChunksPartition
  BY <1>0, ArgsFields, DatesAreInt DEF ChunksPartition
<1>3. BackfillParts
  BY DEF BackfillParts, FullParts
<1>4. SinglePart
  BY DEF SinglePart
<1>5. Progress
  BY DEF Progress
<1>6. QED
  BY <1>1, <1>2, <1>3, <1>4, <1>5 DEF CommandInv

(* A step that only moves the status keeps every part of the invariant but *)
(* what the status says.                                                   *)
LEMMA StatusStep ==
  ASSUME CommandInv, status' \in Statuses, Progress',
         UNCHANGED <<args, entities, chunks, cursor, chunk, parts, clock>>
  PROVE  CommandInv'
<1>1. CommandTypeOK'
  BY DEF CommandInv, CommandTypeOK
<1>2. ChunksPartition'
  BY DEF CommandInv, ChunksPartition, Within
<1>3. BackfillParts'
  BY DEF CommandInv, BackfillParts, IsFullPart, IsChunkPart, FullParts
<1>4. UNCHANGED <<ModeRefused, ModeOf, RollingWindow(Anchor, Days)>>
  BY DEF ModeRefused, ModeOf, RollingWindow, Anchor, Days, Ranged, BusinessTo
<1>5. SinglePart'
  BY <1>4 DEF CommandInv, SinglePart
<1>6. QED
  BY <1>1, <1>2, <1>3, <1>5 DEF CommandInv

(* The steps that end the command without a manifest.                      *)
LEMMA EndStep ==
  ASSUME CommandInv, status' \in {"failed", "killed"},
         UNCHANGED <<args, entities, chunks, cursor, chunk, parts, clock, manifest>>
  PROVE  CommandInv'
<1>1. status' \in Statuses
  BY DEF Statuses
<1>2. Progress'
  BY DEF Progress
<1>3. QED
  BY <1>1, <1>2, StatusStep

(* Each step keeps the invariant: the flags of a backfill are resolved.    *)
LEMMA ResolveBackfillInv ==
  ASSUME CommandInv, ResolveBackfill PROVE CommandInv'
<1>1. CASE Refuse
  BY <1>1, EndStep DEF Refuse
<1>2. CASE ~Refuse
  <2>1. /\ status = "start" /\ args.backfill
        /\ entities' = ResolvedEntities("backfill")
        /\ status' = "full_once"
        /\ UNCHANGED <<args, chunks, cursor, chunk, parts, clock, manifest>>
    BY <1>2 DEF ResolveBackfill
  <2>2. ResolvedEntities("backfill") \subseteq Entities
    BY ArgsFields DEF CommandInv, CommandTypeOK, ResolvedEntities,
       DefaultEntities, Entities
  <2>3. parts = <<>> /\ chunk = 0 /\ cursor = args.from /\ chunks = <<>>
    BY <2>1 DEF CommandInv, Progress
  <2>4. CommandTypeOK'
    BY <2>1, <2>2 DEF CommandInv, CommandTypeOK, Statuses
  <2>5. ChunksPartition'
    BY <2>1 DEF CommandInv, ChunksPartition, Within
  <2>6. BackfillParts'
    BY <2>1, <2>3 DEF BackfillParts, FullParts
  <2>7. SinglePart'
    BY <2>1 DEF SinglePart
  <2>8. Progress'
    BY <2>1, <2>3 DEF Progress
  <2>9. QED
    BY <2>1, <2>4, <2>5, <2>6, <2>7, <2>8 DEF CommandInv
<1>3. QED
  BY <1>1, <1>2

(* The flags of any other command are resolved.                            *)
LEMMA ResolveInv ==
  ASSUME CommandInv, Resolve PROVE CommandInv'
<1>1. CASE Refuse
  BY <1>1, EndStep DEF Refuse
<1>2. CASE ~Refuse
  <2>1. /\ status = "start" /\ ~args.backfill /\ ~ModeRefused
        /\ entities' = ResolvedEntities(ModeOf)
        /\ status' = "single"
        /\ UNCHANGED <<args, chunks, cursor, chunk, parts, clock, manifest>>
    BY <1>2 DEF Resolve
  <2>2. ResolvedEntities(ModeOf) \subseteq Entities
    <3>1. DefaultEntities(ModeOf) \subseteq Entities
      BY AnchorType, EntityAssumption DEF CommandInv, CommandTypeOK, Modes,
         DefaultEntities, Entities
    <3>2. QED
      BY <3>1, ArgsFields DEF CommandInv, CommandTypeOK, ResolvedEntities
  <2>3. parts = <<>> /\ chunk = 0
    BY <2>1 DEF CommandInv, Progress
  <2>4. CommandTypeOK'
    BY <2>1, <2>2 DEF CommandInv, CommandTypeOK, Statuses
  <2>5. ChunksPartition'
    BY <2>1 DEF CommandInv, ChunksPartition, Within
  <2>6. BackfillParts'
    BY <2>1 DEF BackfillParts
  <2>7. SinglePart'
    BY <2>1, <2>3 DEF SinglePart
  <2>8. UNCHANGED ModeRefused
    BY <2>1 DEF ModeRefused, ModeOf, Ranged, BusinessTo
  <2>9. Progress'
    BY <2>1, <2>3, <2>8 DEF Progress
  <2>10. QED
    BY <2>1, <2>4, <2>5, <2>6, <2>7, <2>9 DEF CommandInv
<1>3. QED
  BY <1>1, <1>2

(* The one part of a command that is not a backfill.                       *)
LEMMA RunSingleInv ==
  ASSUME CommandInv, RunSingle PROVE CommandInv'
<1> DEFINE window == IF ModeOf = "rolling_full" THEN RollingWindow(Anchor, Days)
                     ELSE NoDate
<1>1. /\ status = "single" /\ ~args.backfill /\ ~ModeRefused
      /\ parts = <<>> /\ chunk = 0 /\ Len(parts) = 0
      /\ args \in Args /\ clock \in 0..MaxClock
      /\ entities \in SUBSET Entities /\ parts \in Seq(PartType)
  BY DEF RunSingle, CommandInv, Progress, CommandTypeOK
<1>2. /\ RunPart(ModeOf, Anchor, window, entities)
      /\ status' = "merge" /\ UNCHANGED chunk
      /\ UNCHANGED <<args, entities, cursor, chunks, manifest>>
  BY DEF RunSingle, RunPart
<1>3. ModeOf \in Modes /\ Anchor \in Dates /\ window \in (Int \X Int) \cup {NoDate}
  BY <1>1, AnchorType, RollingWindowType
<1> HIDE DEF window
<1>4. /\ parts' \in Seq(PartType)
      /\ Len(parts') = 1 /\ DOMAIN parts' = 1..1
      /\ parts'[1].mode = ModeOf /\ parts'[1].window = window
      /\ clock' \in 0..MaxClock
  BY <1>1, <1>2, <1>3, RunPartAppends
<1>5. CommandTypeOK'
  BY <1>2, <1>4 DEF CommandInv, CommandTypeOK, Statuses
<1>6. ChunksPartition'
  BY <1>2 DEF CommandInv, ChunksPartition, Within
<1>7. BackfillParts'
  BY <1>1, <1>2 DEF BackfillParts
<1>8. UNCHANGED <<ModeRefused, ModeOf, RollingWindow(Anchor, Days)>>
  BY <1>2 DEF ModeRefused, ModeOf, RollingWindow, Anchor, Days, Ranged, BusinessTo
<1>9. SinglePart'
  BY <1>1, <1>4, <1>8 DEF SinglePart, window
<1>10. Progress'
  BY <1>1, <1>2 DEF Progress
<1>11. QED
  BY <1>4, <1>5, <1>6, <1>7, <1>9, <1>10 DEF CommandInv

(* The full part of a backfill.                                            *)
LEMMA FullOnceInv ==
  ASSUME CommandInv, FullOnce PROVE CommandInv'
<1>1. /\ status = "full_once" /\ args.backfill
      /\ parts = <<>> /\ Len(parts) = 0 /\ chunk = 0 /\ chunks = <<>>
      /\ args \in Args /\ clock \in 0..MaxClock
      /\ entities \in SUBSET Entities /\ parts \in Seq(PartType)
  BY DEF FullOnce, CommandInv, Progress, CommandTypeOK
<1>2. /\ status' = AfterFullOnce
      /\ UNCHANGED <<args, entities, chunks, cursor, chunk, manifest>>
  BY DEF FullOnce, RunPart
<1>3. /\ status' \in Statuses \ {"done"} /\ status' \in {"merge", "chunking"}
      /\ status' = "merge" => entities \cap Windowable = {}
  BY <1>2 DEF AfterFullOnce, Statuses
<1>4. /\ parts' \in Seq(PartType)
      /\ Len(parts') = FullParts
      /\ clock' \in 0..MaxClock
      /\ \A n \in DOMAIN parts' : n <= FullParts /\ IsFullPart(parts'[n])
  <2>1. CASE entities \subseteq Windowable
    <3>1. parts' = <<>> /\ clock' = clock /\ FullParts = 0
      BY <1>1, <2>1 DEF FullOnce, FullParts
    <3>2. QED
      BY <1>1, <3>1
  <2>2. CASE ~(entities \subseteq Windowable)
    <3>1. RunPart("master", args.to, NoDate, entities \ Windowable)
      BY <2>2 DEF FullOnce
    <3>2. /\ "master" \in Modes /\ args.to \in Dates
          /\ NoDate \in (Int \X Int) \cup {NoDate}
          /\ entities \ Windowable \in SUBSET Entities
      BY <1>1, ArgsFields DEF Modes
    <3>3. /\ parts' \in Seq(PartType)
          /\ Len(parts') = Len(parts) + 1 /\ DOMAIN parts' = 1..(Len(parts) + 1)
          /\ parts'[Len(parts) + 1].mode = "master"
          /\ parts'[Len(parts) + 1].window = NoDate
          /\ parts'[Len(parts) + 1].entities = entities \ Windowable
          /\ clock' \in 0..MaxClock
      <4>1. parts \in Seq(PartType) /\ clock \in 0..MaxClock
        BY <1>1
      <4>2. QED
        BY <3>1, <3>2, <4>1, RunPartAppends
    <3>4. QED
      BY <1>1, <2>2, <3>3 DEF FullParts, IsFullPart
  <2>3. QED
    BY <2>1, <2>2
<1>5. UNCHANGED FullParts
  BY <1>2 DEF FullParts
<1>6. CommandTypeOK'
  BY <1>2, <1>3, <1>4 DEF CommandInv, CommandTypeOK
<1>7. ChunksPartition'
  BY <1>2 DEF CommandInv, ChunksPartition, Within
<1>8. BackfillParts'
  <2>1. Len(parts') <= FullParts + chunk
    BY <1>1, <1>4 DEF FullParts
  <2>2. \A n \in DOMAIN parts' : IsFullPart(parts[n])'
    BY <1>2, <1>4 DEF IsFullPart
  <2>3. QED
    BY <1>2, <1>4, <1>5, <2>1, <2>2 DEF BackfillParts
<1>9. SinglePart'
  BY <1>1, <1>2 DEF SinglePart
<1>10. Progress'
  BY <1>1, <1>2, <1>3, <1>4, <1>5 DEF Progress, FullParts
<1>11. QED
  BY <1>4, <1>6, <1>7, <1>8, <1>9, <1>10 DEF CommandInv

(* A chunk is cut.                                                         *)
LEMMA NextChunkInv ==
  ASSUME CommandInv, NextChunk PROVE CommandInv'
<1> DEFINE c == <<cursor, ChunkEnd>>
<1>1. /\ status = "chunking" /\ args.backfill /\ chunk = 0
      /\ args \in Args /\ cursor \in Dates /\ cursor <= args.to
      /\ chunks \in Seq(Dates \X Dates)
  BY DEF NextChunk, CommandInv, Progress, CommandTypeOK
<1>2. /\ cursor' = NextStart
      /\ UNCHANGED <<args, status, entities, chunk, parts, clock, manifest>>
  BY DEF NextChunk
<1>3. /\ NextStart \in Dates /\ cursor < NextStart
      /\ ChunkEnd \in Dates /\ cursor <= ChunkEnd /\ ChunkEnd <= args.to
      /\ ChunkEnd < NextStart
      /\ \A d \in Int : d < NextStart /\ d <= args.to => d <= ChunkEnd
  BY <1>1, NextStartForward, ChunkEndInside
<1>4. /\ cursor \in Int /\ NextStart \in Int /\ ChunkEnd \in Int
      /\ args.from \in Int /\ args.to \in Int
  BY <1>1, <1>3, ArgsFields, DatesAreInt
<1>5. c \in Dates \X Dates /\ c[1] = cursor /\ c[2] = ChunkEnd
  BY <1>1, <1>3
<1>6. chunks' = Append(chunks, c)
  BY DEF NextChunk
<1> HIDE DEF c
<1>7. /\ chunks' \in Seq(Dates \X Dates)
      /\ Len(chunks') = Len(chunks) + 1
      /\ DOMAIN chunks = 1..Len(chunks)
      /\ DOMAIN chunks' = DOMAIN chunks \cup {Len(chunks) + 1}
      /\ \A n \in DOMAIN chunks : chunks'[n] = chunks[n] /\ n \in Nat /\ n < Len(chunks) + 1
      /\ chunks'[Len(chunks) + 1] = c
      /\ Len(chunks) \in Nat
  BY <1>1, <1>5, <1>6
<1>8. \A n \in DOMAIN chunks :
        /\ chunks[n][1] \in Int /\ chunks[n][2] \in Int
        /\ args.from <= chunks[n][1] /\ chunks[n][1] <= chunks[n][2]
        /\ chunks[n][2] <= args.to /\ chunks[n][2] < cursor
  <2>1. \A n \in DOMAIN chunks : chunks[n] \in Dates \X Dates
    BY <1>1
  <2>2. \A n \in DOMAIN chunks : chunks[n][1] \in Int /\ chunks[n][2] \in Int
    BY <2>1, DatesAreInt
  <2>3. QED
    BY <2>2 DEF CommandInv, CommandTypeOK, ChunksPartition
<1>9. args.from <= cursor
  BY DEF CommandInv, ChunksPartition
<1>10. CommandTypeOK'
  <2>1. \A n \in DOMAIN chunks' :
          /\ args.from <= chunks'[n][1] /\ chunks'[n][1] <= chunks'[n][2]
          /\ chunks'[n][2] <= args.to
    BY <1>3, <1>5, <1>7, <1>8, <1>9
  <2>2. QED
    BY <1>1, <1>2, <1>3, <1>7, <2>1 DEF CommandInv, CommandTypeOK
<1>11. ChunksPartition'
  <2>1. \A n \in DOMAIN chunks' : chunks'[n][2] < cursor'
    BY <1>2, <1>3, <1>4, <1>5, <1>7, <1>8
  <2>2. \A m, n \in DOMAIN chunks' : m < n => chunks'[m][2] < chunks'[n][1]
    BY <1>5, <1>7, <1>8 DEF CommandInv, ChunksPartition
  <2>3. ASSUME NEW d \in args.from..args.to, d < cursor'
        PROVE  \E n \in DOMAIN chunks' : Within(d, chunks'[n])
    <3>1. CASE d < cursor
      <4>1. PICK n \in DOMAIN chunks : Within(d, chunks[n])
        BY <3>1 DEF CommandInv, ChunksPartition
      <4>2. QED
        BY <4>1, <1>7
    <3>2. CASE ~(d < cursor)
      <4>1. Within(d, c)
        BY <3>2, <2>3, <1>2, <1>3, <1>4, <1>5 DEF Within
      <4>2. QED
        BY <4>1, <1>7
    <3>3. QED
      BY <3>1, <3>2
  <2>4. args'.from <= cursor'
    BY <1>2, <1>3, <1>4, <1>9
  <2>5. QED
    BY <1>2, <2>1, <2>2, <2>3, <2>4 DEF ChunksPartition, Within
<1>12. UNCHANGED FullParts /\ FullParts \in {0, 1}
  BY <1>2 DEF FullParts
<1>13. BackfillParts'
  <2>1. Len(parts) = FullParts /\ DOMAIN parts = 1..Len(parts)
    BY <1>1, <1>12 DEF CommandInv, Progress
  <2>2. \A n \in DOMAIN parts : n <= FullParts /\ IsFullPart(parts[n])
    BY <1>1, <1>12, <2>1 DEF CommandInv, BackfillParts
  <2>3. \A n \in DOMAIN parts : IsFullPart(parts[n])'
    BY <1>2, <2>2 DEF IsFullPart
  <2>4. QED
    BY <1>1, <1>2, <1>12, <2>1, <2>2, <2>3 DEF BackfillParts
<1>14. SinglePart'
  BY <1>1, <1>2 DEF SinglePart
<1>15. Progress'
  BY <1>1, <1>2, <1>12 DEF CommandInv, Progress
<1>16. QED
  BY <1>2, <1>10, <1>11, <1>13, <1>14, <1>15 DEF CommandInv

(* The cutting of chunks ends.                                             *)
LEMMA ChunksReadyInv ==
  ASSUME CommandInv, ChunksReady PROVE CommandInv'
<1>1. /\ status = "chunking" /\ status' = "chunks" /\ cursor > args.to
      /\ args.backfill /\ chunk = 0 /\ Len(parts) = FullParts + chunk
      /\ UNCHANGED <<args, entities, chunks, cursor, chunk, parts, clock, manifest>>
  BY DEF ChunksReady, CommandInv, Progress
<1>2. status' \in Statuses
  BY <1>1 DEF Statuses
<1>3. Progress'
  BY <1>1 DEF Progress, FullParts
<1>4. QED
  BY <1>1, <1>2, <1>3, StatusStep

(* A chunk's part runs.                                                    *)
LEMMA RunChunkInv ==
  ASSUME CommandInv, RunChunk PROVE CommandInv'
<1> DEFINE c == chunks[chunk + 1]
<1>1. /\ status = "chunks" /\ args.backfill /\ chunk < Len(chunks)
      /\ args \in Args /\ clock \in 0..MaxClock
      /\ chunk \in 0..Len(chunks) /\ Len(chunks) \in Nat
      /\ chunks \in Seq(Dates \X Dates) /\ parts \in Seq(PartType)
      /\ cursor > args.to /\ Len(parts) = FullParts + chunk
      /\ DOMAIN chunks = 1..Len(chunks) /\ DOMAIN parts = 1..Len(parts)
  BY DEF RunChunk, CommandInv, Progress, CommandTypeOK
<1>2. FullParts \in {0, 1}
  BY DEF FullParts
<1>3. c \in Dates \X Dates /\ c \in Int \X Int /\ ChunkDate(c) \in Dates
      /\ ChunkDate(c) = c[2]
  <2>1. c \in Dates \X Dates
    BY <1>1
  <2>2. QED
    BY <2>1, DatesAreInt DEF ChunkDate
<1>4. /\ RunPart("backfill", ChunkDate(c), c, entities \cap Windowable)
      /\ chunk' = chunk + 1
      /\ UNCHANGED <<args, status, entities, cursor, chunks, manifest>>
  BY DEF RunChunk, RunPart
<1>5. "backfill" \in Modes /\ entities \cap Windowable \in SUBSET Entities
  BY DEF Modes, CommandInv, CommandTypeOK
<1> HIDE DEF c
<1>6. /\ parts' \in Seq(PartType)
      /\ Len(parts') = Len(parts) + 1
      /\ DOMAIN parts' = 1..(Len(parts) + 1)
      /\ \A n \in DOMAIN parts : parts'[n] = parts[n]
      /\ parts'[Len(parts) + 1].mode = "backfill"
      /\ parts'[Len(parts) + 1].date = c[2]
      /\ parts'[Len(parts) + 1].window = c
      /\ parts'[Len(parts) + 1].entities = entities \cap Windowable
      /\ clock' \in 0..MaxClock
  BY <1>1, <1>3, <1>4, <1>5, RunPartAppends
<1>7. UNCHANGED FullParts
  BY <1>4 DEF FullParts
<1>8. CommandTypeOK'
  BY <1>1, <1>4, <1>6 DEF CommandInv, CommandTypeOK
<1>9. ChunksPartition'
  BY <1>4 DEF CommandInv, ChunksPartition, Within
<1>10. BackfillParts'
  <2>1. Len(parts') = FullParts + chunk'
    BY <1>1, <1>2, <1>4, <1>6
  <2>2. ASSUME NEW n \in DOMAIN parts', n <= FullParts
        PROVE  IsFullPart(parts[n])'
    <3>1. n \in DOMAIN parts /\ IsFullPart(parts[n])
      BY <1>1, <1>2, <1>6, <2>2 DEF CommandInv, BackfillParts
    <3>2. QED
      BY <1>4, <1>6, <3>1 DEF IsFullPart
  <2>3. ASSUME NEW n \in DOMAIN parts', ~(n <= FullParts)
        PROVE  IsChunkPart(parts[n], chunks[n - FullParts])'
    <3>1. CASE n \in DOMAIN parts
      <4>1. IsChunkPart(parts[n], chunks[n - FullParts])
        BY <1>1, <2>3, <3>1 DEF CommandInv, BackfillParts
      <4>2. QED
        BY <1>4, <1>6, <1>7, <3>1, <4>1 DEF IsChunkPart
    <3>2. CASE n \notin DOMAIN parts
      <4>1. n = Len(parts) + 1 /\ n - FullParts = chunk + 1
        BY <1>1, <1>2, <1>6, <3>2
      <4>2. chunks'[n - FullParts'] = c
        BY <1>4, <1>7, <4>1 DEF c
      <4>3. /\ parts'[n].mode = "backfill" /\ parts'[n].window = c
            /\ parts'[n].date = c[2]
            /\ parts'[n].entities = entities' \cap Windowable
        BY <1>4, <1>6, <4>1
      <4>4. QED
        BY <4>2, <4>3 DEF IsChunkPart
    <3>3. QED
      BY <3>1, <3>2
  <2>4. QED
    BY <1>2, <1>7, <2>1, <2>2, <2>3 DEF BackfillParts
<1>11. SinglePart'
  BY <1>1, <1>4 DEF SinglePart
<1>12. Progress'
  BY <1>1, <1>2, <1>4, <1>6, <1>7 DEF Progress
<1>13. QED
  BY <1>6, <1>8, <1>9, <1>10, <1>11, <1>12 DEF CommandInv

(* The last chunk has run.                                                 *)
LEMMA ChunksDoneInv ==
  ASSUME CommandInv, ChunksDone PROVE CommandInv'
<1>1. /\ status = "chunks" /\ status' = "merge" /\ chunk = Len(chunks)
      /\ args.backfill /\ cursor > args.to /\ Len(parts) = FullParts + chunk
      /\ UNCHANGED <<args, entities, chunks, cursor, chunk, parts, clock, manifest>>
  BY DEF ChunksDone, CommandInv, Progress
<1>2. status' \in Statuses
  BY <1>1 DEF Statuses
<1>3. Progress'
  BY <1>1 DEF Progress, FullParts
<1>4. QED
  BY <1>1, <1>2, <1>3, StatusStep

(* The merged manifest is written.                                         *)
LEMMA WriteManifestInv ==
  ASSUME CommandInv, WriteManifest PROVE CommandInv'
<1>1. /\ status = "merge" /\ status' = "done" /\ manifest' = Outcomes
      /\ UNCHANGED <<args, entities, chunks, cursor, chunk, parts, clock>>
  BY DEF WriteManifest
<1>2. status' \in Statuses
  BY <1>1 DEF Statuses
<1>3. UNCHANGED <<Outcomes, FullParts>>
  BY <1>1 DEF Outcomes, FullParts, WindowOf
<1>4. Progress'
  BY <1>1, <1>3 DEF CommandInv, Progress
<1>5. QED
  BY <1>1, <1>2, <1>4, StatusStep

(* Every step keeps the invariant.                                         *)
LEMMA StepInv == CommandInv /\ [CommandNext]_commandVars => CommandInv'
<1> SUFFICES ASSUME CommandInv, [CommandNext]_commandVars PROVE CommandInv'
  OBVIOUS
<1>1. CASE ResolveBackfill
  BY <1>1, ResolveBackfillInv
<1>2. CASE Resolve
  BY <1>2, ResolveInv
<1>3. CASE RunSingle
  BY <1>3, RunSingleInv
<1>4. CASE FullOnce
  BY <1>4, FullOnceInv
<1>5. CASE NextChunk
  BY <1>5, NextChunkInv
<1>6. CASE ChunksReady
  BY <1>6, ChunksReadyInv
<1>7. CASE RunChunk
  BY <1>7, RunChunkInv
<1>8. CASE ChunksDone
  BY <1>8, ChunksDoneInv
<1>9. CASE WriteManifest
  BY <1>9, WriteManifestInv
<1>10. CASE WriteManifestFails \/ Kill
  BY <1>10, EndStep DEF WriteManifestFails, Refuse, Kill
<1>11. CASE UNCHANGED commandVars
  <2>1. UNCHANGED <<Outcomes, FullParts, ModeRefused>>
    BY <1>11 DEF commandVars, Outcomes, FullParts, WindowOf, ModeRefused,
       ModeOf, Ranged, BusinessTo
  <2>2. status' \in Statuses /\ Progress'
    BY <1>11, <2>1 DEF commandVars, CommandInv, CommandTypeOK, Progress
  <2>3. QED
    BY <1>11, <2>2, StatusStep DEF commandVars
<1>12. QED
  BY <1>1, <1>2, <1>3, <1>4, <1>5, <1>6, <1>7, <1>8, <1>9, <1>10, <1>11
     DEF CommandNext

(* The invariant of every command.                                         *)
THEOREM CommandInvariance == CommandSpec => []CommandInv
  BY InitInv, StepInv, PTL DEF CommandSpec

(* Every command keeps its types, and every chunk it cuts is a range that  *)
(* is not empty and lies in the range of the backfill.                     *)
THEOREM CommandTypes == CommandSpec => []CommandTypeOK
<1>1. CommandInv => CommandTypeOK
  BY DEF CommandInv
<1>2. QED
  BY <1>1, CommandInvariance, PTL
----------------------------------------------------------------------------
(* The parts of a backfill, taken apart.                                   *)
LEMMA BackfillPart ==
  ASSUME CommandInv, args.backfill, NEW n \in DOMAIN parts
  PROVE  /\ n \in Nat /\ FullParts \in {0, 1} /\ n >= 1
         /\ parts[n].mode # "rolling_full"
         /\ n <= FullParts => n = 1 /\ IsFullPart(parts[n])
         /\ n > FullParts => /\ n - FullParts \in DOMAIN chunks
                            /\ IsChunkPart(parts[n], chunks[n - FullParts])
<1>1. FullParts \in {0, 1}
  BY DEF FullParts
<1>2. /\ parts \in Seq(PartType) /\ DOMAIN parts = 1..Len(parts)
      /\ chunk \in 0..Len(chunks) /\ DOMAIN chunks = 1..Len(chunks)
      /\ Len(parts) \in Nat /\ Len(chunks) \in Nat
  BY DEF CommandInv, CommandTypeOK
<1>3. Len(parts) <= FullParts + chunk
  BY DEF CommandInv, BackfillParts
<1>4. n \in Nat /\ n >= 1 /\ n <= FullParts + chunk
  BY <1>1, <1>2, <1>3
<1>5. IF n <= FullParts THEN IsFullPart(parts[n])
      ELSE IsChunkPart(parts[n], chunks[n - FullParts])
  BY DEF CommandInv, BackfillParts
<1>6. parts[n].mode # "rolling_full"
  BY <1>5 DEF IsFullPart, IsChunkPart
<1>7. n > FullParts => n - FullParts \in DOMAIN chunks
  BY <1>1, <1>2, <1>4
<1>8. QED
  BY <1>1, <1>4, <1>5, <1>6, <1>7

(* The chunks are ranges of dates, and one that comes later ends later.    *)
LEMMA ChunkOrder ==
  ASSUME CommandInv
  PROVE  /\ \A n \in DOMAIN chunks :
              /\ n \in Nat
              /\ chunks[n][1] \in Int /\ chunks[n][2] \in Int
              /\ chunks[n][1] <= chunks[n][2]
         /\ \A m, n \in DOMAIN chunks : m < n => chunks[m][2] < chunks[n][1]
<1>1. \A n \in DOMAIN chunks : n \in Nat /\ chunks[n] \in Dates \X Dates
  BY DEF CommandInv, CommandTypeOK
<1>2. \A n \in DOMAIN chunks : chunks[n][1] \in Int /\ chunks[n][2] \in Int
  BY <1>1, DatesAreInt
<1>3. QED
  BY <1>1, <1>2 DEF CommandInv, CommandTypeOK, ChunksPartition

(* Two parts of a backfill that hold the same windowable entity and the    *)
(* same date are the same part.                                            *)
LEMMA PartsApart ==
  ASSUME CommandInv, args.backfill,
         NEW m \in DOMAIN parts, NEW n \in DOMAIN parts,
         m > FullParts, n > FullParts,
         m # n
  PROVE  /\ parts[m].date # parts[n].date
         /\ \A d \in Int : ~(Within(d, parts[m].window) /\ Within(d, parts[n].window))
<1> DEFINE i == m - FullParts
           j == n - FullParts
<1>1. /\ i \in DOMAIN chunks /\ IsChunkPart(parts[m], chunks[i])
      /\ j \in DOMAIN chunks /\ IsChunkPart(parts[n], chunks[j])
      /\ FullParts \in {0, 1} /\ m \in Nat /\ n \in Nat
  BY BackfillPart
<1>2. i < j \/ j < i
  BY <1>1
<1> HIDE DEF i, j
<1>3. i < j => chunks[i][2] < chunks[j][1] /\ chunks[i][2] < chunks[j][2]
  BY <1>1, ChunkOrder
<1>4. j < i => chunks[j][2] < chunks[i][1] /\ chunks[j][2] < chunks[i][2]
  BY <1>1, ChunkOrder
<1>5. /\ chunks[i][1] \in Int /\ chunks[i][2] \in Int
      /\ chunks[j][1] \in Int /\ chunks[j][2] \in Int
  BY <1>1, ChunkOrder
<1>6. QED
  BY <1>1, <1>2, <1>3, <1>4, <1>5 DEF IsChunkPart, Within

(* No command writes an object of an entity twice under one date and       *)
(* second, whatever second its parts start in.                             *)
THEOREM KeysOfPartsDiffer == CommandSpec => []PartKeysDiffer
<1>1. CommandInv => PartKeysDiffer
  <2> SUFFICES ASSUME CommandInv, NEW m \in DOMAIN parts, NEW n \in DOMAIN parts,
                      m # n, parts[m].entities \cap parts[n].entities # {}
               PROVE  parts[m].date # parts[n].date
    BY DEF PartKeysDiffer
  <2>1. CASE ~args.backfill
    <3>1. Len(parts) <= 1 /\ DOMAIN parts = 1..Len(parts) /\ Len(parts) \in Nat
      BY <2>1 DEF CommandInv, SinglePart
    <3>2. m = 1 /\ n = 1
      BY <3>1
    <3>3. QED
      BY <3>2
  <2>2. CASE args.backfill
    <3>1. ~(m <= FullParts) \/ ~(n <= FullParts)
      BY <2>2, BackfillPart
    <3>2. ASSUME NEW p \in DOMAIN parts, NEW q \in DOMAIN parts,
                 p <= FullParts, q > FullParts
          PROVE  parts[p].entities \cap parts[q].entities = {}
      BY <2>2, <3>2, BackfillPart DEF IsFullPart, IsChunkPart
    <3>3. m \in Nat /\ n \in Nat /\ FullParts \in {0, 1}
      BY <2>2, BackfillPart
    <3>4. m > FullParts /\ n > FullParts
      BY <3>1, <3>2, <3>3
    <3>5. QED
      BY <2>2, <3>4, PartsApart
  <2>3. QED
    BY <2>1, <2>2
<1>2. QED
  BY <1>1, CommandInvariance, PTL

(* The dates a user names are the dates that are fetched, for every range. *)
THEOREM ExplicitWindows == CommandSpec => []ExplicitWindowKept
<1>1. CommandInv => ExplicitWindowKept
  <2> SUFFICES ASSUME CommandInv, NEW n \in DOMAIN parts,
                      parts[n].mode = "rolling_full", Ranged
               PROVE  parts[n].window = <<args.business_from, BusinessTo>>
    BY DEF ExplicitWindowKept
  <2>1. ~args.backfill
    BY BackfillPart DEF CommandInv, CommandTypeOK
  <2>2. parts # <<>>
    OBVIOUS
  <2>3. /\ ~ModeRefused /\ ModeOf = "rolling_full"
        /\ parts[n].window = RollingWindow(Anchor, Days)
    BY <2>1, <2>2 DEF CommandInv, SinglePart
  <2>4. QED
    BY <2>3, RollingWindowType DEF CommandInv, CommandTypeOK
<1>2. QED
  BY <1>1, CommandInvariance, PTL

(* The outcome that part n has for one unit.                               *)
OutcomeOf(n, t, e) ==
  [part |-> n, tenant |-> t, entity |-> e, window |-> WindowOf(parts[n], e)]

(* An outcome belongs to a part, a tenant and one of the part's entities.  *)
LEMMA OutcomeMember ==
  \A o : o \in Outcomes <=>
    \E n \in DOMAIN parts : \E t \in Tenants : \E e \in parts[n].entities :
      o = OutcomeOf(n, t, e)
  BY DEF Outcomes, OutcomeOf

(* The outcomes of one unit are those of the parts that hold its entity.   *)
LEMMA Mine ==
  ASSUME NEW t \in Tenants, NEW e
  PROVE  \A o : o \in {p \in Outcomes : p.tenant = t /\ p.entity = e} <=>
           \E n \in DOMAIN parts : e \in parts[n].entities /\ o = OutcomeOf(n, t, e)
<1>1. \A n, u, f : OutcomeOf(n, u, f).tenant = u /\ OutcomeOf(n, u, f).entity = f
  BY DEF OutcomeOf
<1>2. QED
  BY <1>1, OutcomeMember

(* A merged backfill manifest counts every date of the range once for      *)
(* every unit, for every range, chunk length and calendar.                 *)
THEOREM BackfillCovers == CommandSpec => []ManifestCoversRange
<1>1. CommandInv => ManifestCoversRange
  <2> SUFFICES ASSUME CommandInv, args.backfill, status = "done",
                      NEW t \in Tenants, NEW e \in entities
      PROVE  LET mine == {o \in manifest : o.tenant = t /\ o.entity = e} IN
             IF e \in Windowable
             THEN \A d \in args.from..args.to :
                    \E o \in mine : /\ Within(d, o.window)
                                   /\ \A q \in mine : Within(d, q.window) => q = o
             ELSE \E o \in mine : o.window = NoDate /\ mine = {o}
    BY DEF ManifestCoversRange
  <2> DEFINE mine == {o \in manifest : o.tenant = t /\ o.entity = e}
  <2>1. /\ manifest = Outcomes /\ chunk = Len(chunks)
        /\ Len(parts) = FullParts + Len(chunks)
        /\ entities \cap Windowable # {} => cursor > args.to
    BY DEF CommandInv, Progress
  <2>2. \A o : o \in mine <=>
          \E n \in DOMAIN parts : e \in parts[n].entities /\ o = OutcomeOf(n, t, e)
    BY <2>1, Mine
  <2>3. /\ DOMAIN parts = 1..Len(parts) /\ DOMAIN chunks = 1..Len(chunks)
        /\ Len(chunks) \in Nat /\ FullParts \in {0, 1}
        /\ args \in Args /\ cursor \in Int
    BY DatesAreInt DEF CommandInv, CommandTypeOK, FullParts
  <2>4. \A n \in DOMAIN parts : n > FullParts \/ n <= FullParts
    BY <2>3
  <2>5. \A n \in DOMAIN parts :
          e \in parts[n].entities <=> (n > FullParts <=> e \in Windowable)
    BY <2>3, <2>4, BackfillPart DEF IsFullPart, IsChunkPart
  <2> HIDE DEF mine
  <2>6. ASSUME e \in Windowable, NEW d \in args.from..args.to
        PROVE  \E o \in mine : /\ Within(d, o.window)
                               /\ \A q \in mine : Within(d, q.window) => q = o
    <3>1. d \in Int /\ d < cursor
      BY <2>1, <2>3, <2>6, ArgsFields, DatesAreInt
    <3>2. PICK k \in DOMAIN chunks : Within(d, chunks[k])
      BY <3>1 DEF CommandInv, ChunksPartition
    <3>3. /\ k + FullParts \in DOMAIN parts /\ k + FullParts > FullParts
          /\ (k + FullParts) - FullParts = k
      BY <2>1, <2>3
    <3>4. PICK n \in DOMAIN parts : n = k + FullParts
      BY <3>3
    <3>5. IsChunkPart(parts[n], chunks[k]) /\ n > FullParts
      BY <3>3, <3>4, BackfillPart
    <3>6. \A m : OutcomeOf(m, t, e).window = parts[m].window
      BY <2>6 DEF OutcomeOf, WindowOf
    <3>7. OutcomeOf(n, t, e) \in mine /\ Within(d, OutcomeOf(n, t, e).window)
      BY <2>2, <2>5, <2>6, <3>2, <3>5, <3>6 DEF IsChunkPart
    <3>8. ASSUME NEW q \in mine, Within(d, q.window)
          PROVE  q = OutcomeOf(n, t, e)
      <4>1. PICK m \in DOMAIN parts :
              e \in parts[m].entities /\ q = OutcomeOf(m, t, e)
        BY <2>2
      <4>2. m > FullParts /\ Within(d, parts[m].window) /\ Within(d, parts[n].window)
        BY <2>5, <2>6, <3>6, <3>7, <3>8, <4>1
      <4>3. m = n
        BY <3>1, <3>5, <4>2, PartsApart
      <4>4. QED
        BY <4>1, <4>3
    <3>9. QED
      BY <3>7, <3>8
  <2>7. ASSUME e \notin Windowable
        PROVE  \E o \in mine : o.window = NoDate /\ mine = {o}
    <3>1. FullParts = 1
      BY <2>7 DEF FullParts
    <3>2. 1 \in DOMAIN parts
      BY <2>1, <2>3, <3>1
    <3>3. \A n \in DOMAIN parts : e \in parts[n].entities <=> n = 1
      BY <2>3, <2>5, <2>7, <3>1
    <3>4. OutcomeOf(1, t, e).window = NoDate
      BY <2>7 DEF OutcomeOf, WindowOf
    <3>5. mine = {OutcomeOf(1, t, e)}
      BY <2>2, <3>2, <3>3
    <3>6. QED
      BY <3>4, <3>5
  <2>8. QED
    BY <2>6, <2>7 DEF mine
<1>2. QED
  BY <1>1, CommandInvariance, PTL
============================================================================
