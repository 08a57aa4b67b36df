-------------------------- MODULE LogRotationProofs --------------------------
(***************************************************************************)
(* Proofs about LogRotation for any number of lines and handlers and any   *)
(* sizes.  Typing first, then the order of the lines (KeptIsSuffix, which  *)
(* holds whoever interferes), then the sizes, first while no two handlers  *)
(* were inside an append at once (Sized), then for all histories, where    *)
(* the appends under way are counted (Shared), and then the removal.       *)
(***************************************************************************)
EXTENDS LogRotation, SequenceTheorems, FiniteSetTheorems, TLAPS

\* The inductive invariant behind the run's, in named parts.  A file that is not
\* there has no lines;
AbsentIsEmpty == \A f \in Path \ exists : text[f] = <<>> /\ size[f] = 0

\* one handler at a time is inside an append, as long as none overlapped;
OneAtATime == ~overlap => \A g, h \in Handler : Busy(g) /\ Busy(h) => g = h

\* the handler whose turn it is has unlinked the backup, and is to write the
\* line that is due, and it is the only one to have done so;
TurnIsDue ==
  turner # 0 => pc[turner] \in {"move", "append"} /\ due = bytes[turner]

MovesInTurn == ~overlap => \A h \in Handler : pc[h] = "move" => turner = h

\* a line about to be appended fits;
AppendFits ==
  ~overlap => \A h \in Handler : pc[h] = "append" => size["log"] + bytes[h] <= MaxBytes

\* a rotation is under way only when the log is full;
RotatedWhenFull ==
  Intact /\ ~overlap => \A h \in Handler :
    pc[h] \in {"unlink", "move"} => size["log"] + bytes[h] > MaxBytes

\* alone, no file outgrows MaxBytes;
AloneFits == ~overlap => size["log"] <= MaxBytes /\ size["backup"] <= MaxBytes

\* whoever has a line was made;
Made == \A h \in Handler : Busy(h) \/ waiting[h] # <<>> => h <= handler

\* together, one of those about to append leaves room for the others, as the
\* last of them to measure did;
Appending == {h \in Handler : pc[h] = "append"}

TogetherFits ==
  /\ size["backup"] <= MaxBytes * handler
  /\ IF Appending = {} THEN size["log"] <= MaxBytes * handler
     ELSE \E h \in Appending :
            size["log"] + bytes[h] <= MaxBytes * (handler - Cardinality(Appending) + 1)

\* and from a removal in time to its end no handler has a job, and of the files
\* those are gone that the removal has passed without failing.
Removing == {"removing", "leaving", "removed"}

StillThere ==
  CASE entry = "removing" -> {"backup", "dir"}
    [] entry = "leaving"  -> {"dir"}
    [] OTHER              -> LeftBy(failed)

Cleared == entry \in Removing /\ ~hurried => ~UnderWay /\ exists \subseteq StillThere

NotFailedYet == entry # "removed" => failed = "none"

RotationInv ==
  /\ Cleared
  /\ NotFailedYet /\ AbsentIsEmpty /\ OneAtATime /\ TurnIsDue /\ MovesInTurn
  /\ KeptIsSuffix
  /\ AloneFits /\ AppendFits
  /\ Made /\ TogetherFits
  /\ Retention /\ RotatedWhenFull

LEMMA CutBounds ==
  ASSUME NEW n \in 1 .. MaxLine
  PROVE  Cut(n) \in 0 .. MaxBytes
BY SizesAssumption DEF Cut

LEMMA TypedInit == Init => TypeOK
<1> SUFFICES ASSUME Init PROVE TypeOK
  OBVIOUS
<1>1. 0 \in 0 .. NumHandlers /\ 0 \in 0 .. MaxBytes
  BY HandlersAssumption, SizesAssumption
<1>2. overlap \in BOOLEAN /\ hurried \in BOOLEAN
  BY DEF Init
<1>3. text \in [Path -> Seq(Line)] /\ size \in [Path -> Nat]
  BY DEF Init
<1>4. /\ waiting \in [Handler -> Seq(Line)] /\ pc \in [Handler -> Writing \cup {"idle"}]
      /\ line \in [Handler -> Line \cup {None}] /\ bytes \in [Handler -> 0 .. MaxBytes]
  BY <1>1 DEF Init
<1>5. exists \subseteq Path \cup {"dir"} /\ caught \subseteq Line
  BY DEF Init
<1>6. /\ written \in Seq(Line) /\ dropped \in Seq(Line)
      /\ turner \in {0} \cup Handler /\ due \in 0 .. MaxBytes
  BY <1>1 DEF Init
<1>7. /\ handler \in 0 .. NumHandlers /\ preparing \subseteq Handler
      /\ entry \in {"loaded", "unloaded", "removing", "leaving", "removed"}
      /\ failed \in {"none", "log", "backup", "dir"}
  BY <1>1 DEF Init
<1>8. \A h \in Handler : ~Busy(h)
  BY DEF Init, Busy
<1> QED
  BY <1>2, <1>3, <1>4, <1>5, <1>6, <1>7, <1>8 DEF TypeOK

LEMMA TypedStep == TypeOK /\ [Next]_vars => TypeOK'
<1> SUFFICES ASSUME TypeOK, [Next]_vars PROVE TypeOK'
  OBVIOUS
<1> USE DEF TypeOK, fileVars, appendVars, Path, Writing, Busy
<1>1. ASSUME NEW l \in Line, Catch(l) PROVE TypeOK'
  <2>1. waiting' \in [Handler -> Seq(Line)]
    <3>1. CASE handler \in Handler
      BY <1>1, <3>1 DEF Catch
    <3>2. CASE handler \notin Handler
      BY <1>1, <3>2 DEF Catch
    <3> QED
      BY <3>1, <3>2
  <2> QED
    BY <1>1, <2>1 DEF Catch
<1>2. ASSUME NEW h \in Handler, Begin(h) PROVE TypeOK'
  <2>1. Head(waiting[h]) \in Line /\ Tail(waiting[h]) \in Seq(Line)
    BY <1>2, HeadTailProperties DEF Begin
  <2>2. PICK n \in 1 .. MaxLine : bytes' = [bytes EXCEPT ![h] = Cut(n)]
    BY <1>2 DEF Begin
  <2>3. bytes' \in [Handler -> 0 .. MaxBytes]
    BY <2>2, CutBounds
  <2>4. overlap' \in BOOLEAN
    BY <1>2 DEF Begin
  <2>5. waiting' \in [Handler -> Seq(Line)] /\ line' \in [Handler -> Line \cup {None}]
    BY <1>2, <2>1 DEF Begin
  <2>6. pc' \in [Handler -> Writing \cup {"idle"}]
    BY <1>2 DEF Begin
  <2>7. \A g \in Handler : pc'[g] # "idle" => line'[g] \in Line
    BY <1>2, <2>1 DEF Begin
  <2> QED
    BY <1>2, <2>3, <2>4, <2>5, <2>6, <2>7 DEF Begin
<1>3. ASSUME NEW h \in Handler, Measure(h) PROVE TypeOK'
  BY <1>3 DEF Measure
<1>4. ASSUME NEW h \in Handler, Unlink(h) PROVE TypeOK'
  <2>1. dropped \o text["backup"] \in Seq(Line)
    BY ConcatProperties
  <2> QED
    BY <1>4, <2>1 DEF Unlink
<1>5. ASSUME NEW h \in Handler, Move(h) PROVE TypeOK'
  <2>1. dropped \o text["backup"] \in Seq(Line)
    BY ConcatProperties
  <2>2. CASE "log" \in exists
    <3>1. text' \in [Path -> Seq(Line)]
      <4>1. <<>> \in Seq(Line) /\ text["log"] \in Seq(Line)
        OBVIOUS
      <4>2. text' = [f \in Path |-> IF f = "log" THEN <<>> ELSE text["log"]]
        BY <1>5, <2>2 DEF Move
      <4> QED
        BY <4>1, <4>2
    <3>2. size' \in [Path -> Nat]
      BY <1>5, <2>2 DEF Move
    <3> QED
      BY <1>5, <2>1, <2>2, <3>1, <3>2 DEF Move
  <2>3. CASE "log" \notin exists
    BY <1>5, <2>3 DEF Move
  <2> QED
    BY <2>2, <2>3
<1>6. ASSUME NEW h \in Handler, AppendLine(h) PROVE TypeOK'
  <2>1. text' \in [Path -> Seq(Line)]
    BY <1>6 DEF AppendLine, Extended
  <2>2. size' \in [Path -> Nat] /\ due' \in 0 .. MaxBytes /\ written' \in Seq(Line)
    BY <1>6, SizesAssumption DEF AppendLine
  <2>3. /\ bytes' \in [Handler -> 0 .. MaxBytes] /\ turner' \in {0} \cup Handler
        /\ pc' \in [Handler -> Writing \cup {"idle"}] /\ line' \in [Handler -> Line \cup {None}]
        /\ \A g \in Handler : Busy(g)' => line'[g] \in Line
    BY <1>6, SizesAssumption DEF AppendLine, JobEnds
  <2> QED
    BY <1>6, <2>1, <2>2, <2>3 DEF AppendLine
<1>7. ASSUME NEW h \in Handler, AppendFails(h) PROVE TypeOK'
  <2>1. /\ bytes' \in [Handler -> 0 .. MaxBytes] /\ turner' \in {0} \cup Handler
        /\ pc' \in [Handler -> Writing \cup {"idle"}] /\ line' \in [Handler -> Line \cup {None}]
        /\ \A g \in Handler : Busy(g)' => line'[g] \in Line
    BY <1>7, SizesAssumption DEF AppendFails, JobEnds
  <2> QED
    BY <1>7, <2>1 DEF AppendFails
<1>8. CASE Load
  <2>1. handler + 1 \in Handler
    BY <1>8, HandlersAssumption DEF Load, Handler
  <2> QED
    BY <1>8, <2>1, HandlersAssumption DEF Load
<1>14. ASSUME NEW h \in Handler, PrepareDir(h) PROVE TypeOK'
  BY <1>14 DEF PrepareDir
<1>9. CASE Unload
  BY <1>9 DEF Unload
<1>13. CASE Crash
  <2>1. hurried' \in BOOLEAN
    BY <1>13 DEF Crash, Intact
  <2>2. /\ waiting' \in [Handler -> Seq(Line)] /\ pc' \in [Handler -> Writing \cup {"idle"}]
        /\ line' \in [Handler -> Line \cup {None}] /\ bytes' \in [Handler -> 0 .. MaxBytes]
        /\ \A g \in Handler : ~Busy(g)'
    BY <1>13, SizesAssumption DEF Crash
  <2> QED
    BY <1>13, <2>1, <2>2 DEF Crash
<1>10. CASE RemoveLog \/ RemoveBackup
  <2>1. hurried' \in BOOLEAN
    BY <1>10 DEF RemoveLog, RemoveBackup, UnderWay
  <2>2. PICK f \in Path : Removed(f)
    BY <1>10 DEF RemoveLog, RemoveBackup, BackupRemoved
  <2>3. text' \in [Path -> Seq(Line)] /\ size' \in [Path -> Nat] /\ exists' \subseteq exists
    BY <2>2 DEF Removed
  <2> QED
    BY <1>10, <2>1, <2>3 DEF RemoveLog, RemoveBackup
<1>15. CASE RemoveFails
  <2>1. hurried' \in BOOLEAN
    BY <1>15 DEF RemoveFails, UnderWay
  <2> QED
    BY <1>15, <2>1 DEF RemoveFails
<1>11. CASE RemoveDir
  BY <1>11 DEF RemoveDir
<1>12. CASE UNCHANGED vars
  BY <1>12 DEF vars
<1> QED
  BY <1>1, <1>2, <1>3, <1>4, <1>5, <1>6, <1>7, <1>8, <1>9, <1>10, <1>11, <1>12,
     <1>13, <1>14, <1>15
     DEF Next, AppendStep, Quiescent

\* Type correctness: no byte count or index leaves its range.
THEOREM TypeCorrect == Spec => []TypeOK
<1> QED
  BY TypedInit, TypedStep, PTL DEF Spec
-----------------------------------------------------------------------------
(* The order of the lines.                                                  *)

Ordered == AbsentIsEmpty /\ KeptIsSuffix

LEMMA OrderInit == Init => Ordered
<1> SUFFICES ASSUME Init PROVE Ordered
  OBVIOUS
<1>1. text["backup"] = <<>> /\ text["log"] = <<>> /\ dropped = <<>> /\ written = <<>>
  BY DEF Init, Path
<1>2. dropped \o text["backup"] \o text["log"] = written
  BY <1>1
<1>3. AbsentIsEmpty
  BY DEF Init, AbsentIsEmpty
<1> QED
  BY <1>2, <1>3 DEF Ordered, KeptIsSuffix

\* A step that leaves the files alone leaves their order alone.
LEMMA OrderFrame ==
  ASSUME Ordered, UNCHANGED <<text, size, dropped, written>>,
         exists \subseteq exists', Intact' => Intact
  PROVE  Ordered'
BY DEF Ordered, AbsentIsEmpty, KeptIsSuffix

\* Appending to the second of two concatenated sequences appends to the whole.
LEMMA AppendToConcat ==
  ASSUME NEW S, NEW s \in Seq(S), NEW q \in Seq(S), NEW e \in S
  PROVE  s \o Append(q, e) = Append(s \o q, e)
<1>1. <<e>> \in Seq(S)
  OBVIOUS
<1>2. s \o q \in Seq(S)
  BY ConcatProperties
<1>3. Append(q, e) = q \o <<e>> /\ Append(s \o q, e) = (s \o q) \o <<e>>
  BY <1>2, AppendIsConcat
<1> QED
  BY <1>1, <1>3, ConcatAssociative

LEMMA OrderStep == TypeOK /\ Ordered /\ [Next]_vars => Ordered'
<1> SUFFICES ASSUME TypeOK, Ordered, [Next]_vars PROVE Ordered'
  OBVIOUS
<1> USE DEF fileVars, appendVars
<1>0. /\ text["backup"] \in Seq(Line) /\ text["log"] \in Seq(Line)
      /\ dropped \in Seq(Line) /\ dropped \o text["backup"] \in Seq(Line)
  BY ConcatProperties DEF TypeOK, Path
<1>1. ASSUME NEW l \in Line, Catch(l) PROVE Ordered'
  BY <1>1, OrderFrame DEF Catch, Intact
<1>2. ASSUME NEW h \in Handler, Begin(h) \/ AppendFails(h) PROVE Ordered'
  BY <1>2, OrderFrame DEF Begin, AppendFails, Intact
<1>3. ASSUME NEW h \in Handler, Measure(h) PROVE Ordered'
  BY <1>3, OrderFrame DEF Measure, Intact
<1>4. ASSUME NEW h \in Handler, Unlink(h) PROVE Ordered'
  <2>1. /\ exists' = exists \ {"backup"} /\ dropped' = dropped \o text["backup"]
        /\ text' = [text EXCEPT !["backup"] = <<>>]
        /\ size' = [size EXCEPT !["backup"] = 0] /\ UNCHANGED <<written, entry>>
    BY <1>4 DEF Unlink
  <2>2. text'["backup"] = <<>> /\ text'["log"] = text["log"]
    BY <2>1 DEF TypeOK, Path
  <2>3. dropped' \o text'["backup"] = dropped \o text["backup"]
    BY <1>0, <2>1, <2>2, ConcatEmptySeq
  <2>4. AbsentIsEmpty'
    BY <2>1 DEF Ordered, AbsentIsEmpty, TypeOK, Path
  <2> QED
    BY <2>1, <2>2, <2>3, <2>4 DEF Ordered, KeptIsSuffix, Intact
<1>5. ASSUME NEW h \in Handler, Move(h) PROVE Ordered'
  <2>1. CASE "log" \in exists
    <3>1. /\ exists' = (exists \ {"log"}) \cup {"backup"}
          /\ dropped' = dropped \o text["backup"]
          /\ text'["log"] = <<>> /\ text'["backup"] = text["log"]
          /\ size'["log"] = 0 /\ UNCHANGED <<written, entry>>
      BY <1>5, <2>1 DEF Move, Path
    <3>2. dropped' \o text'["backup"] \o text'["log"]
            = dropped \o text["backup"] \o text["log"]
      <4>1. dropped \o text["backup"] \o text["log"] \in Seq(Line)
        BY <1>0, ConcatProperties
      <4> QED
        BY <1>0, <3>1, <4>1, ConcatEmptySeq
    <3>3. AbsentIsEmpty'
      BY <3>1 DEF AbsentIsEmpty, Path
    <3> QED
      BY <3>1, <3>2, <3>3 DEF Ordered, KeptIsSuffix, Intact
  <2>2. CASE "log" \notin exists
    BY <1>5, <2>2, OrderFrame DEF Move, Intact
  <2> QED
    BY <2>1, <2>2
<1>6. ASSUME NEW h \in Handler, AppendLine(h) PROVE Ordered'
  <2>1. /\ exists' = exists \cup {"log"} /\ text' = [text EXCEPT !["log"] = Append(@, line[h])]
        /\ size' = [size EXCEPT !["log"] = @ + bytes[h]]
        /\ written' = Append(written, line[h]) /\ UNCHANGED <<dropped, entry>>
        /\ line[h] \in Line
    BY <1>6 DEF AppendLine, Extended, TypeOK, Busy
  <2>2. text'["log"] = Append(text["log"], line[h]) /\ text'["backup"] = text["backup"]
    BY <2>1 DEF TypeOK, Path
  <2>3. (dropped \o text["backup"]) \o Append(text["log"], line[h])
          = Append((dropped \o text["backup"]) \o text["log"], line[h])
    <3> DEFINE s == dropped \o text["backup"]
               q == text["log"]
    <3>1. s \in Seq(Line) /\ q \in Seq(Line) /\ line[h] \in Line
      BY <1>0, <2>1
    <3> HIDE DEF s, q
    <3>2. s \o Append(q, line[h]) = Append(s \o q, line[h])
      BY <3>1, AppendToConcat
    <3> QED
      BY <3>2 DEF s, q
  <2>4. AbsentIsEmpty'
    BY <2>1 DEF Ordered, AbsentIsEmpty, TypeOK, Path
  <2> QED
    BY <2>1, <2>2, <2>3, <2>4 DEF Ordered, KeptIsSuffix, Intact
<1>7. CASE Load \/ Unload \/ \E h \in Handler : PrepareDir(h)
  BY <1>7, OrderFrame DEF Load, Unload, PrepareDir, Intact
<1>8. CASE Crash
  BY <1>8, OrderFrame DEF Crash, Intact, TypeOK
<1>9. CASE RemoveLog \/ RemoveBackup
  <2>1. PICK f \in Path : Removed(f)
    BY <1>9 DEF RemoveLog, RemoveBackup, BackupRemoved, Path
  <2>2. \A g \in Path \ exists' : text'[g] = <<>> /\ size'[g] = 0
    BY <2>1 DEF Removed, Ordered, AbsentIsEmpty, TypeOK
  <2> QED
    BY <1>9, <2>2 DEF RemoveLog, RemoveBackup, Ordered, AbsentIsEmpty, KeptIsSuffix, Intact
<1>12. CASE RemoveFails
  BY <1>12 DEF RemoveFails, Ordered, AbsentIsEmpty, KeptIsSuffix, Intact
<1>10. CASE RemoveDir
  <2>1. \A f \in Path \ exists' : f \notin exists
    BY <1>10 DEF RemoveDir, Path
  <2> QED
    BY <1>10, <2>1 DEF RemoveDir, Ordered, AbsentIsEmpty, KeptIsSuffix, Intact
<1>11. CASE UNCHANGED vars
  BY <1>11, OrderFrame DEF vars, Intact
<1> QED
  BY <1>1, <1>2, <1>3, <1>4, <1>5, <1>6, <1>7, <1>8, <1>9, <1>10, <1>11, <1>12
     DEF Next, AppendStep, Quiescent

\* Whoever rotates, however the appends of two handlers interleave and wherever
\* the process ends, the two files are the end of what was written, in order.
THEOREM LinesKeptInOrder == Spec => []KeptIsSuffix
<1>1. Init => TypeOK /\ Ordered
  BY TypedInit, OrderInit
<1>2. TypeOK /\ Ordered /\ [Next]_vars => (TypeOK /\ Ordered)'
  BY TypedStep, OrderStep
<1>3. Ordered => KeptIsSuffix
  BY DEF Ordered
<1> QED
  BY <1>1, <1>2, <1>3, PTL DEF Spec
-----------------------------------------------------------------------------
(* The sizes.                                                               *)

\* A file may be full, and a line may not fit, only as far as these say.
Sized == /\ OneAtATime /\ TurnIsDue /\ MovesInTurn /\ AloneFits /\ AppendFits
         /\ Retention /\ RotatedWhenFull

LEMMA SizeInit == Init => Sized
<1> SUFFICES ASSUME Init PROVE Sized
  OBVIOUS
<1>1. size["log"] = 0 /\ size["backup"] = 0 /\ dropped = <<>>
  BY DEF Init, Path
<1>2. turner = 0 /\ \A h \in Handler : pc[h] = "idle" /\ bytes[h] = 0
  BY DEF Init
<1> QED
  BY <1>1, <1>2, SizesAssumption
     DEF Sized, OneAtATime, TurnIsDue, MovesInTurn, AloneFits, AppendFits, Retention,
         RotatedWhenFull, Busy

\* A step that changes no size, and brings no append nearer to its end, keeps
\* the sizes in bounds.
LEMMA SizeFrame ==
  ASSUME TypeOK, Sized, UNCHANGED <<size, dropped, due>>,
         Intact' => Intact, ~overlap' => ~overlap,
         \A h \in Handler : pc'[h] # "idle" => pc'[h] = pc[h] /\ bytes'[h] = bytes[h],
         turner' # 0 => turner' = turner /\ pc'[turner] # "idle",
         ~overlap' => \A h \in Handler : pc'[h] = "move" => turner' = turner
  PROVE  Sized'
<1>1. OneAtATime'
  BY DEF Sized, OneAtATime, Busy
<1>2. TurnIsDue'
  BY DEF Sized, TurnIsDue, TypeOK
<1>3. MovesInTurn'
  BY DEF Sized, MovesInTurn
<1>4. AppendFits' /\ RotatedWhenFull'
  BY DEF Sized, AppendFits, RotatedWhenFull
<1>5. AloneFits' /\ Retention'
  BY DEF Sized, AloneFits, Retention
<1> QED
  BY <1>1, <1>2, <1>3, <1>4, <1>5 DEF Sized

LEMMA SizeStep == TypeOK /\ Ordered /\ Sized /\ [Next]_vars => Sized'
<1> SUFFICES ASSUME TypeOK, Ordered, Sized, [Next]_vars PROVE Sized'
  OBVIOUS
<1> USE SizesAssumption DEF fileVars, appendVars
<1>0. /\ size["log"] \in Nat /\ size["backup"] \in Nat /\ due \in Nat
      /\ \A h \in Handler : bytes[h] \in Nat /\ bytes[h] <= MaxBytes
  BY DEF TypeOK, Path
<1>f. ASSUME UNCHANGED <<size, dropped, due, pc, bytes, turner, overlap>>, Intact' => Intact
      PROVE  Sized'
  <2>1. turner # 0 => pc[turner] # "idle"
    BY DEF Sized, TurnIsDue
  <2> QED
    BY <1>f, <2>1, SizeFrame
<1>1. ASSUME NEW l \in Line, Catch(l) PROVE Sized'
  BY <1>1, <1>f DEF Catch, Intact
<1>2. ASSUME NEW h \in Handler, Begin(h) PROVE Sized'
  <2>1. PICK n \in 1 .. MaxLine : bytes' = [bytes EXCEPT ![h] = Cut(n)]
    BY <1>2 DEF Begin
  <2>2. /\ pc' = [pc EXCEPT ![h] = "measure"] /\ pc[h] = "idle"
        /\ UNCHANGED <<size, dropped, due, turner, entry>>
        /\ overlap' = (overlap \/ \E g \in Handler \ {h} : Busy(g))
    BY <1>2 DEF Begin, Busy
  <2>4. ~overlap' => ~overlap /\ \A g \in Handler \ {h} : ~Busy(g)
    BY <2>2
  <2>5. \A g \in Handler \ {h} : pc'[g] = pc[g] /\ bytes'[g] = bytes[g]
    BY <2>1, <2>2 DEF TypeOK
  <2>6. pc'[h] = "measure"
    BY <2>2 DEF TypeOK
  <2>7. OneAtATime' /\ MovesInTurn'
    BY <2>2, <2>4, <2>5, <2>6 DEF Sized, OneAtATime, MovesInTurn, Busy
  <2>8. AppendFits' /\ RotatedWhenFull'
    BY <2>4, <2>5, <2>6 DEF AppendFits, RotatedWhenFull, Busy
  <2>9. TurnIsDue'
    BY <2>2, <2>5 DEF Sized, TurnIsDue, TypeOK
  <2> QED
    BY <2>2, <2>4, <2>7, <2>8, <2>9 DEF Sized, AloneFits, Retention, Intact
<1>3. ASSUME NEW h \in Handler, Measure(h) PROVE Sized'
  <2>1. /\ pc' = [pc EXCEPT ![h] = IF Fits(h) THEN "append" ELSE "unlink"]
        /\ UNCHANGED <<size, dropped, bytes, turner, due, overlap, entry>>
        /\ pc[h] = "measure" /\ Busy(h)
    BY <1>3 DEF Measure, Busy
  <2>2. \A g \in Handler \ {h} : pc'[g] = pc[g]
    BY <2>1 DEF TypeOK
  <2>3. Fits(h) <=> size["log"] + bytes[h] <= MaxBytes
    BY DEF Fits
  <2>4. pc'[h] = IF Fits(h) THEN "append" ELSE "unlink"
    BY <2>1 DEF TypeOK
  <2>5. OneAtATime' /\ MovesInTurn'
    BY <2>1, <2>2, <2>4 DEF Sized, OneAtATime, MovesInTurn, Busy
  <2>6. AppendFits'
    BY <2>1, <2>2, <2>3, <2>4 DEF Sized, AppendFits
  <2>7. RotatedWhenFull'
    BY <1>0, <2>1, <2>2, <2>3, <2>4 DEF Sized, RotatedWhenFull, Intact
  <2>8. TurnIsDue'
    BY <2>1, <2>2 DEF Sized, TurnIsDue, TypeOK
  <2> QED
    BY <2>1, <2>5, <2>6, <2>7, <2>8 DEF Sized, AloneFits, Retention, Intact
<1>4. ASSUME NEW h \in Handler, Unlink(h) PROVE Sized'
  <2>1. /\ pc[h] = "unlink" /\ pc' = [pc EXCEPT ![h] = "move"]
        /\ size'["backup"] = 0 /\ size'["log"] = size["log"]
        /\ turner' = h /\ due' = bytes[h]
        /\ UNCHANGED <<bytes, overlap, entry>>
    BY <1>4 DEF Unlink, TypeOK, Path
  <2>2. pc'[h] = "move" /\ \A g \in Handler \ {h} : pc'[g] = pc[g]
    BY <2>1 DEF TypeOK
  <2>3. OneAtATime' /\ TurnIsDue'
    BY <2>1, <2>2 DEF Sized, OneAtATime, TurnIsDue, Busy
  <2>6. MovesInTurn'
    BY <2>1, <2>2 DEF Sized, OneAtATime, MovesInTurn, Busy
  <2>4. AppendFits' /\ RotatedWhenFull'
    BY <2>1, <2>2 DEF Sized, AppendFits, RotatedWhenFull, Intact
  <2>5. Retention'
    BY <1>0, <2>1 DEF Sized, RotatedWhenFull, Retention, Intact
  <2> QED
    BY <1>0, <2>1, <2>3, <2>4, <2>5, <2>6 DEF Sized, AloneFits
<1>5. ASSUME NEW h \in Handler, Move(h) PROVE Sized'
  <2>1. /\ pc[h] = "move" /\ pc' = [pc EXCEPT ![h] = "append"]
        /\ UNCHANGED <<bytes, turner, due, overlap, entry>>
    BY <1>5 DEF Move
  <2>2. pc'[h] = "append" /\ \A g \in Handler \ {h} : pc'[g] = pc[g]
    BY <2>1 DEF TypeOK
  <2>3. /\ size'["log"] = 0
        /\ \/ size'["backup"] = size["log"]
           \/ /\ size["log"] = 0
              /\ size'["backup"] = size["backup"] /\ dropped' = dropped
    <3>1. CASE "log" \in exists
      BY <1>5, <3>1 DEF Move, Path
    <3>2. CASE "log" \notin exists
      BY <1>5, <3>2 DEF Move, Ordered, AbsentIsEmpty, Path
    <3> QED
      BY <3>1, <3>2
  <2>4. ~overlap => \A g \in Handler \ {h} : ~Busy(g)
    BY <2>1 DEF Sized, OneAtATime, Busy
  <2>5. OneAtATime' /\ MovesInTurn'
    BY <2>1, <2>2 DEF Sized, OneAtATime, MovesInTurn, Busy
  <2>9. TurnIsDue'
    BY <2>1, <2>2 DEF Sized, TurnIsDue, TypeOK
  <2>6. AppendFits' /\ RotatedWhenFull'
    BY <1>0, <2>1, <2>2, <2>3, <2>4 DEF AppendFits, RotatedWhenFull, Busy
  <2>7. Retention'
    <3>1. ~overlap => turner = h /\ due = bytes[h]
      <4>1. 0 \notin Handler
        BY DEF Handler
      <4> QED
        BY <2>1, <4>1 DEF Sized, MovesInTurn, TurnIsDue
    <3>2. Intact /\ ~overlap => size["log"] + due > MaxBytes
      BY <2>1, <3>1 DEF Sized, RotatedWhenFull
    <3> QED
      BY <1>0, <2>1, <2>3, <3>2 DEF Sized, Retention, Intact
  <2>8. AloneFits'
    BY <1>0, <2>1, <2>3 DEF Sized, AloneFits
  <2> QED
    BY <2>5, <2>6, <2>7, <2>8, <2>9 DEF Sized
<1>j. ASSUME NEW h \in Handler, JobEnds(h) PROVE
        /\ pc'[h] = "idle" /\ turner' # h
        /\ turner' # 0 => turner' = turner
        /\ \A g \in Handler \ {h} : pc'[g] = pc[g] /\ bytes'[g] = bytes[g]
  <2>1. 0 # h
    BY DEF Handler
  <2> QED
    BY <1>j, <2>1 DEF JobEnds, TypeOK
<1>t. ASSUME NEW h \in Handler, JobEnds(h), turner = h \/ due' = due PROVE TurnIsDue'
  <2>1. CASE turner' = 0
    BY <2>1 DEF TurnIsDue
  <2>2. CASE turner' # 0
    <3>1. turner' = turner /\ turner \in Handler \ {h} /\ due' = due
      BY <1>j, <1>t, <2>2 DEF TypeOK
    <3> QED
      BY <1>j, <1>t, <3>1 DEF Sized, TurnIsDue
  <2> QED
    BY <2>1, <2>2
<1>6. ASSUME NEW h \in Handler, AppendLine(h) PROVE Sized'
  <2>1. /\ pc[h] = "append" /\ JobEnds(h)
        /\ size'["log"] = size["log"] + bytes[h] /\ size'["backup"] = size["backup"]
        /\ due' = IF turner = h THEN 0 ELSE due
        /\ UNCHANGED <<overlap, entry, dropped>>
    BY <1>6 DEF AppendLine, TypeOK, Path
  <2>3. ~overlap => \A g \in Handler : pc'[g] = "idle"
    BY <1>j, <2>1 DEF Sized, OneAtATime, Busy
  <2>4. OneAtATime' /\ MovesInTurn' /\ AppendFits' /\ RotatedWhenFull'
    BY <2>1, <2>3 DEF OneAtATime, MovesInTurn, AppendFits, RotatedWhenFull, Busy
  <2>7. TurnIsDue'
    BY <1>t, <2>1
  <2>5. AloneFits'
    BY <2>1 DEF Sized, AloneFits, AppendFits
  <2>6. Retention'
    <3>1. turner = h => due = bytes[h]
      <4>1. 0 # h
        BY DEF Handler
      <4> QED
        BY <4>1 DEF Sized, TurnIsDue
    <3> QED
      BY <1>0, <2>1, <3>1 DEF Sized, Retention, Intact
  <2> QED
    BY <2>4, <2>5, <2>6, <2>7 DEF Sized
<1>7. ASSUME NEW h \in Handler, AppendFails(h) PROVE Sized'
  <2>1. /\ Busy(h) /\ JobEnds(h) /\ UNCHANGED <<size, due, overlap, entry, dropped>>
    BY <1>7 DEF AppendFails
  <2>2. ~overlap => \A g \in Handler : pc'[g] = "idle"
    BY <1>j, <2>1 DEF Sized, OneAtATime, Busy
  <2>3. OneAtATime' /\ MovesInTurn' /\ AppendFits' /\ RotatedWhenFull'
    BY <2>1, <2>2 DEF OneAtATime, MovesInTurn, AppendFits, RotatedWhenFull, Busy
  <2>4. TurnIsDue'
    BY <1>t, <2>1
  <2> QED
    BY <2>1, <2>3, <2>4 DEF Sized, AloneFits, Retention, Intact
<1>8. CASE Load \/ Unload \/ \E h \in Handler : PrepareDir(h)
  BY <1>8, <1>f DEF Load, Unload, PrepareDir, Intact
<1>9. CASE Crash
  BY <1>9, SizeFrame DEF Crash, Intact, TypeOK
<1>10. CASE RemoveLog \/ RemoveBackup
  <2>1. PICK f \in Path : Removed(f)
    BY <1>10 DEF RemoveLog, RemoveBackup, BackupRemoved, Path
  <2>2. /\ ~Intact' /\ UNCHANGED <<pc, bytes, turner, due, overlap>>
    BY <1>10 DEF RemoveLog, RemoveBackup, Intact
  <2>3. \A g \in Path : size'[g] \in Nat /\ size'[g] <= size[g]
    BY <2>1 DEF Removed, TypeOK
  <2>4. /\ size'["log"] \in Nat /\ size'["log"] <= size["log"]
        /\ size'["backup"] \in Nat /\ size'["backup"] <= size["backup"]
    BY <2>3 DEF Path
  <2>5. OneAtATime' /\ TurnIsDue' /\ MovesInTurn' /\ Retention' /\ RotatedWhenFull'
    BY <2>2 DEF Sized, OneAtATime, TurnIsDue, MovesInTurn, Retention, RotatedWhenFull, Busy
  <2>6. AloneFits' /\ AppendFits'
    BY <1>0, <2>2, <2>4 DEF Sized, AloneFits, AppendFits
  <2> QED
    BY <2>5, <2>6 DEF Sized
<1>11. CASE RemoveFails \/ RemoveDir
  BY <1>11, <1>f DEF RemoveFails, RemoveDir, Intact
<1>12. CASE UNCHANGED vars
  BY <1>12, <1>f DEF vars, Intact
<1> QED
  BY <1>1, <1>2, <1>3, <1>4, <1>5, <1>6, <1>7, <1>8, <1>9, <1>10, <1>11, <1>12
     DEF Next, AppendStep, Quiescent

-----------------------------------------------------------------------------
(* The sizes when handlers overlap.                                         *)

Cap(n) == MaxBytes * n

LEMMA CapFacts ==
  /\ Cap(0) = 0 /\ Cap(1) = MaxBytes
  /\ \A n \in Int : Cap(n) \in Int /\ Cap(n + 1) = Cap(n) + MaxBytes
  /\ \A m, n \in Int : m <= n => Cap(m) <= Cap(n)
BY SizesAssumption DEF Cap

LEMMA CapGrows ==
  ASSUME NEW m \in Nat, NEW n \in Nat, m <= n
  PROVE  Cap(m) <= Cap(n) /\ Cap(m) \in Int /\ Cap(n) \in Int
<1>1. m \in Int /\ n \in Int
  OBVIOUS
<1> QED
  BY <1>1, CapFacts

\* Of m handlers those in A are about to append b to a file of z bytes.
Fit(z, b, A, m) ==
  IF A = {} THEN z <= Cap(m)
  ELSE \E h \in A : z + b[h] <= Cap(m - Cardinality(A) + 1)

LEMMA SizeOfSome ==
  ASSUME NEW m \in Nat, NEW A \in SUBSET (1 .. m)
  PROVE  IsFiniteSet(A) /\ Cardinality(A) \in 0 .. m /\ (Cardinality(A) = 0 <=> A = {})
<1>1. IsFiniteSet(1 .. m) /\ Cardinality(1 .. m) = m
  BY FS_Interval
<1>2. IsFiniteSet(A) /\ Cardinality(A) <= m
  BY <1>1, FS_Subset
<1>3. Cardinality(A) \in Nat
  BY <1>2, FS_CardinalityType
<1>4. Cardinality(A) = 0 <=> A = {}
  BY <1>2, FS_EmptySet
<1> QED
  BY <1>2, <1>3, <1>4

\* One is done: it has written its bytes, or none.
LEMMA FitLeaves ==
  ASSUME NEW m \in Nat, NEW A \in SUBSET (1 .. m), NEW b, \A h \in A : b[h] \in 0 .. MaxBytes,
         NEW z \in Nat, NEW y \in Nat, NEW h \in A, y <= z + b[h], Fit(z, b, A, m)
  PROVE  Fit(y, b, A \ {h}, m)
<1> DEFINE n == Cardinality(A)
<1>1. n \in 1 .. m /\ Cardinality(A \ {h}) = n - 1 /\ (n = 1 => A \ {h} = {})
  <2>1. IsFiniteSet(A) /\ n \in 0 .. m /\ n # 0
    BY SizeOfSome
  <2>2. Cardinality(A \ {h}) = n - 1
    BY <2>1, FS_RemoveElement
  <2> QED
    BY <2>1, <2>2, SizeOfSome
<1> HIDE DEF n
<1>2. PICK g \in A : z + b[g] <= Cap(m - n + 1)
  BY DEF Fit, n
<1>3. Cap(m - n + 1) \in Int /\ Cap(m - n + 2) = Cap(m - n + 1) + MaxBytes
  <2>1. m - n + 1 \in Int /\ (m - n + 1) + 1 = m - n + 2
    BY <1>1
  <2> QED
    BY <2>1, CapFacts
<1>4. CASE A \ {h} = {}
  <2>1. g = h /\ n = 1
    BY <1>1, <1>4, SizeOfSome
  <2>2. y <= Cap(m)
    BY <1>1, <1>2, <1>3, <2>1, SizesAssumption
  <2> QED
    BY <1>4, <2>2 DEF Fit
<1>5. CASE A \ {h} # {}
  <2>1. \E k \in A \ {h} : y + b[k] <= Cap(m - n + 2)
    <3>1. CASE g = h
      <4>1. PICK k \in A \ {h} : TRUE
        BY <1>5
      <4>2. b[k] \in Nat /\ b[k] <= MaxBytes /\ b[h] \in Nat /\ y <= Cap(m - n + 1)
        BY <1>2, <1>3, <3>1, SizesAssumption
      <4>3. y + b[k] <= Cap(m - n + 2)
        BY <1>3, <4>2, SizesAssumption
      <4> QED
        BY <4>3
    <3>2. CASE g # h
      BY <1>2, <1>3, <3>2, SizesAssumption
    <3> QED
      BY <3>1, <3>2
  <2>2. m - (n - 1) + 1 = m - n + 2
    BY <1>1
  <2> QED
    BY <1>1, <1>5, <2>1, <2>2 DEF Fit
<1> QED
  BY <1>4, <1>5

\* One has measured that its line fits.
LEMMA FitJoins ==
  ASSUME NEW m \in Nat, NEW A \in SUBSET (1 .. m), NEW b, NEW z \in Nat,
         NEW h \in A, b[h] \in Nat, z + b[h] <= MaxBytes
  PROVE  Fit(z, b, A, m)
<1>1. Cardinality(A) \in 0 .. m
  BY SizeOfSome
<1>2. m - Cardinality(A) + 1 \in Int /\ 1 <= m - Cardinality(A) + 1
  BY <1>1
<1>3. MaxBytes <= Cap(m - Cardinality(A) + 1) /\ Cap(m - Cardinality(A) + 1) \in Int
  BY <1>2, CapFacts
<1>4. z + b[h] <= Cap(m - Cardinality(A) + 1)
  BY <1>3, SizesAssumption
<1> QED
  BY <1>4 DEF Fit

\* More handlers, a shorter file and the lines of others do no harm.
LEMMA FitStays ==
  ASSUME NEW m \in Nat, NEW l \in Nat, m <= l, NEW A \in SUBSET (1 .. m),
         NEW b, NEW c, \A h \in A : b[h] \in 0 .. MaxBytes /\ c[h] = b[h],
         NEW z \in Nat, NEW y \in Nat, y <= z, Fit(z, b, A, m)
  PROVE  Fit(y, c, A, l)
<1>1. Cardinality(A) \in 0 .. m
  BY SizeOfSome
<1>2. /\ Cap(m) <= Cap(l) /\ Cap(m - Cardinality(A) + 1) <= Cap(l - Cardinality(A) + 1)
      /\ Cap(m) \in Int /\ Cap(l) \in Int
      /\ Cap(m - Cardinality(A) + 1) \in Int /\ Cap(l - Cardinality(A) + 1) \in Int
  <2>1. /\ m - Cardinality(A) + 1 \in Int /\ l - Cardinality(A) + 1 \in Int
        /\ m - Cardinality(A) + 1 <= l - Cardinality(A) + 1
    BY <1>1
  <2> QED
    BY <2>1, CapFacts
<1>3. CASE A = {}
  BY <1>2, <1>3 DEF Fit
<1>4. CASE A # {}
  <2>1. PICK h \in A : z + b[h] <= Cap(m - Cardinality(A) + 1)
    BY <1>4 DEF Fit
  <2>2. y + c[h] <= Cap(l - Cardinality(A) + 1)
    BY <1>2, <2>1, SizesAssumption
  <2> QED
    BY <1>4, <2>2 DEF Fit
<1> QED
  BY <1>3, <1>4

\* The file itself is bounded, whoever is about to append.
LEMMA FitBounds ==
  ASSUME NEW m \in Nat, NEW A \in SUBSET (1 .. m), NEW b, \A h \in A : b[h] \in 0 .. MaxBytes,
         NEW z \in Nat, Fit(z, b, A, m)
  PROVE  z <= Cap(m)
<1>1. CASE A = {}
  BY <1>1 DEF Fit
<1>2. CASE A # {}
  <2>1. Cardinality(A) \in 1 .. m
    <3>1. Cardinality(A) \in 0 .. m /\ Cardinality(A) # 0
      BY <1>2, SizeOfSome
    <3> QED
      BY <3>1
  <2>2. PICK h \in A : z + b[h] <= Cap(m - Cardinality(A) + 1)
    BY <1>2 DEF Fit
  <2>3. m - Cardinality(A) + 1 \in Int /\ m - Cardinality(A) + 1 <= m
    BY <2>1
  <2>4. Cap(m - Cardinality(A) + 1) <= Cap(m) /\ Cap(m - Cardinality(A) + 1) \in Int /\ Cap(m) \in Int
    BY <2>3, CapFacts
  <2> QED
    BY <2>2, <2>4, SizesAssumption
<1> QED
  BY <1>1, <1>2

Shared == /\ Made
          /\ size["backup"] <= Cap(handler)
          /\ Fit(size["log"], bytes, Appending, handler)

LEMMA SharedParts == Shared <=> Made /\ TogetherFits
BY DEF Shared, TogetherFits, Fit, Cap

LEMMA SharedInit == Init => Shared
<1> SUFFICES ASSUME Init PROVE Shared
  OBVIOUS
<1>1. Appending = {} /\ handler = 0 /\ size["log"] = 0 /\ size["backup"] = 0
  BY DEF Init, Appending, Path
<1>2. Made
  BY DEF Init, Made, Busy
<1>3. Fit(size["log"], bytes, Appending, handler) /\ size["backup"] <= Cap(handler)
  BY <1>1, CapFacts DEF Fit
<1> QED
  BY <1>2, <1>3 DEF Shared

LEMMA SharedStep == TypeOK /\ Ordered /\ Shared /\ [Next]_vars => Shared'
<1> SUFFICES ASSUME TypeOK, Ordered, Shared, [Next]_vars PROVE Shared'
  OBVIOUS
<1> USE DEF fileVars, appendVars
<1> DEFINE A == Appending
<1>0. /\ size["log"] \in Nat /\ size["backup"] \in Nat /\ handler \in Nat
      /\ A \in SUBSET (1 .. handler)
      /\ \A h \in Handler : bytes[h] \in 0 .. MaxBytes
  BY HandlersAssumption DEF TypeOK, Path, Shared, Made, Appending, Busy, Handler
<1>f. Fit(size["log"], bytes, A, handler)
  BY DEF Shared
<1>b. size["log"] <= Cap(handler) /\ size["backup"] <= Cap(handler)
  BY <1>0, <1>f, FitBounds DEF Shared, Appending
\* Nothing that matters here has changed, but for lines not yet measured.
<1>s. ASSUME A' = A, handler <= handler', handler' \in Nat, size'["log"] <= size["log"],
             size'["backup"] <= size["backup"], size'["log"] \in Nat, size'["backup"] \in Nat,
             \A h \in A : bytes'[h] = bytes[h], Made'
      PROVE  Shared'
  <2>1. Fit(size'["log"], bytes', A, handler')
    BY <1>0, <1>f, <1>s, FitStays DEF Appending
  <2>2. size'["backup"] <= Cap(handler')
    <3>1. Cap(handler) <= Cap(handler') /\ Cap(handler) \in Int /\ Cap(handler') \in Int
      <4>1. handler \in Nat /\ handler' \in Nat /\ handler <= handler'
        BY <1>0, <1>s
      <4> QED
        BY <4>1, CapGrows
    <3> QED
      BY <1>0, <1>b, <1>s, <3>1
  <2> QED
    BY <1>s, <2>1, <2>2 DEF Shared
<1>1. ASSUME NEW l \in Line, Catch(l) PROVE Shared'
  <2>1. Made'
    BY <1>1 DEF Catch, Shared, Made, Busy, TypeOK, Handler
  <2> QED
    BY <1>0, <1>1, <1>s, <2>1 DEF Catch, Appending
<1>2. ASSUME NEW h \in Handler, Begin(h) PROVE Shared'
  <2>1. /\ ~Busy(h) /\ waiting[h] # <<>> /\ pc' = [pc EXCEPT ![h] = "measure"]
        /\ waiting' = [waiting EXCEPT ![h] = Tail(@)]
        /\ UNCHANGED <<handler, size>>
    BY <1>2 DEF Begin
  <2>2. \A g \in Handler \ {h} : bytes'[g] = bytes[g]
    BY <1>2 DEF Begin, TypeOK
  <2>3. A' = A /\ h \notin A
    BY <2>1 DEF Appending, TypeOK, Busy
  <2>4. Made'
    BY <2>1 DEF Shared, Made, Busy, TypeOK
  <2> QED
    BY <1>0, <1>s, <2>1, <2>2, <2>3, <2>4 DEF Appending
<1>3. ASSUME NEW h \in Handler, Measure(h) PROVE Shared'
  <2>1. /\ pc[h] = "measure" /\ pc' = [pc EXCEPT ![h] = IF Fits(h) THEN "append" ELSE "unlink"]
        /\ UNCHANGED <<handler, size, bytes, waiting>>
    BY <1>3 DEF Measure
  <2>2. Made' /\ h <= handler
    BY <2>1 DEF Shared, Made, Busy, TypeOK
  <2>3. CASE Fits(h)
    <3>1. A' = A \cup {h}
      BY <2>1, <2>3 DEF Appending, TypeOK
    <3>2. /\ A \cup {h} \in SUBSET (1 .. handler) /\ bytes[h] \in Nat
          /\ size["log"] + bytes[h] <= MaxBytes
      BY <1>0, <2>2, <2>3, SizesAssumption DEF Fits, Handler
    <3>3. Fit(size["log"], bytes, A', handler)
      <4> HIDE DEF A
      <4> QED
        BY <1>0, <3>1, <3>2, FitJoins
    <3> QED
      BY <1>b, <2>1, <2>2, <3>3 DEF Shared
  <2>4. CASE ~Fits(h)
    <3>1. A' = A
      BY <2>1, <2>4 DEF Appending, TypeOK
    <3> QED
      BY <1>0, <1>s, <2>1, <2>2, <3>1
  <2> QED
    BY <2>3, <2>4
<1>4. ASSUME NEW h \in Handler, Unlink(h) PROVE Shared'
  <2>1. /\ pc[h] = "unlink" /\ pc' = [pc EXCEPT ![h] = "move"]
        /\ size'["backup"] = 0 /\ size'["log"] = size["log"]
        /\ UNCHANGED <<handler, bytes, waiting>>
    BY <1>4 DEF Unlink, TypeOK, Path
  <2>2. A' = A /\ Made'
    BY <2>1 DEF Appending, TypeOK, Shared, Made, Busy
  <2> QED
    BY <1>0, <1>s, <2>1, <2>2
<1>5. ASSUME NEW h \in Handler, Move(h) PROVE Shared'
  <2>1. /\ pc[h] = "move" /\ pc' = [pc EXCEPT ![h] = "append"]
        /\ UNCHANGED <<handler, bytes, waiting>>
    BY <1>5 DEF Move
  <2>2. /\ size'["log"] = 0
        /\ size'["backup"] \in {size["log"], size["backup"]}
    <3>1. CASE "log" \in exists
      BY <1>5, <3>1 DEF Move, Path
    <3>2. CASE "log" \notin exists
      BY <1>5, <3>2 DEF Move, Ordered, AbsentIsEmpty, Path
    <3> QED
      BY <3>1, <3>2
  <2>3. A' = A \cup {h} /\ Made' /\ h <= handler
    BY <2>1 DEF Appending, TypeOK, Shared, Made, Busy
  <2>4. A \cup {h} \in SUBSET (1 .. handler) /\ bytes[h] \in Nat /\ 0 + bytes[h] <= MaxBytes
    BY <1>0, <2>3, SizesAssumption DEF Handler
  <2>5. Fit(0, bytes, A', handler)
    <3> HIDE DEF A
    <3> QED
      BY <1>0, <2>3, <2>4, FitJoins
  <2> QED
    BY <1>b, <2>1, <2>2, <2>3, <2>5 DEF Shared
<1>6. ASSUME NEW h \in Handler, AppendLine(h) \/ AppendFails(h) PROVE Shared'
  <2>1. /\ pc' = [pc EXCEPT ![h] = "idle"] /\ bytes' = [bytes EXCEPT ![h] = 0]
        /\ UNCHANGED <<handler, waiting>>
        /\ size'["backup"] = size["backup"]
        /\ \/ pc[h] = "append" /\ size'["log"] = size["log"] + bytes[h]
           \/ size'["log"] = size["log"]
    BY <1>6 DEF AppendLine, AppendFails, JobEnds, TypeOK, Path
  <2>2. A' = A \ {h} /\ Made'
    BY <2>1 DEF Appending, TypeOK, Shared, Made, Busy
  <2>5. \A g \in A \ {h} : bytes'[g] = bytes[g]
    BY <2>1 DEF TypeOK, Appending
  <2>3. CASE h \in A
    <3>1. size'["log"] \in Nat /\ size'["log"] <= size["log"] + bytes[h]
      BY <1>0, <2>1, SizesAssumption
    <3>2. Fit(size'["log"], bytes, A \ {h}, handler)
      BY <1>0, <1>f, <2>3, <3>1, FitLeaves DEF Appending
    <3>3. Fit(size'["log"], bytes', A \ {h}, handler)
      BY <2>5, <3>2 DEF Fit
    <3> QED
      BY <1>b, <2>1, <2>2, <3>3 DEF Shared
  <2>4. CASE h \notin A
    <3>1. A' = A /\ size' ["log"] = size["log"]
      BY <2>1, <2>2, <2>4 DEF Appending
    <3> QED
      BY <1>0, <1>s, <2>1, <2>2, <2>5, <3>1
  <2> QED
    BY <2>3, <2>4
<1>7. CASE Load \/ Unload \/ \E h \in Handler : PrepareDir(h)
  <2>1. /\ UNCHANGED <<size, pc, bytes, waiting>> /\ handler' \in {handler, handler + 1}
    BY <1>7 DEF Load, Unload, PrepareDir
  <2>2. A' = A /\ Made'
    BY <1>0, <2>1 DEF Appending, Shared, Made, Busy, Handler
  <2> QED
    BY <1>0, <1>s, <2>1, <2>2
<1>8. CASE Crash
  <2>1. /\ UNCHANGED <<size, handler>>
        /\ waiting' = [h \in Handler |-> <<>>] /\ pc' = [h \in Handler |-> "idle"]
    BY <1>8 DEF Crash
  <2>2. A' = {} /\ Made'
    BY <2>1 DEF Appending, Made, Busy
  <2> QED
    BY <1>b, <2>1, <2>2 DEF Shared, Fit
<1>9. CASE RemoveLog \/ RemoveBackup
  <2>1. PICK f \in Path : Removed(f)
    BY <1>9 DEF RemoveLog, RemoveBackup, BackupRemoved, Path
  <2>2. /\ size'["log"] \in Nat /\ size'["log"] <= size["log"]
        /\ size'["backup"] \in Nat /\ size'["backup"] <= size["backup"]
        /\ UNCHANGED <<pc, bytes, waiting, handler>>
    BY <1>0, <1>9, <2>1 DEF RemoveLog, RemoveBackup, Removed, TypeOK, Path
  <2>3. A' = A /\ Made'
    BY <2>2 DEF Appending, Shared, Made, Busy
  <2> QED
    BY <1>0, <1>s, <2>2, <2>3
<1>10. CASE RemoveFails \/ RemoveDir \/ UNCHANGED vars
  <2>1. UNCHANGED <<size, pc, bytes, waiting, handler>>
    BY <1>10 DEF RemoveFails, RemoveDir, vars
  <2>2. A' = A /\ Made'
    BY <2>1 DEF Appending, Shared, Made, Busy
  <2> QED
    BY <1>0, <1>s, <2>1, <2>2
<1> QED
  BY <1>1, <1>2, <1>3, <1>4, <1>5, <1>6, <1>7, <1>8, <1>9, <1>10
     DEF Next, AppendStep, Quiescent
-----------------------------------------------------------------------------
(* The removal.                                                             *)

\* Nothing has failed before the removal ends.
LEMMA FailedStep == NotFailedYet /\ [Next]_vars => NotFailedYet'
<1> SUFFICES ASSUME NotFailedYet, [Next]_vars PROVE NotFailedYet'
  OBVIOUS
<1>1. ASSUME NEW h \in Handler, Begin(h) \/ AppendStep(h) \/ PrepareDir(h)
      PROVE  NotFailedYet'
  BY <1>1 DEF NotFailedYet, Begin, AppendStep, Measure, Unlink, Move, AppendLine,
              AppendFails, PrepareDir
<1>2. CASE Load \/ Unload \/ Crash \/ \E l \in Line : Catch(l)
  BY <1>2 DEF NotFailedYet, Load, Unload, Crash, Catch, Intact
<1>3. CASE RemoveLog \/ RemoveBackup \/ RemoveFails \/ RemoveDir
  BY <1>3 DEF NotFailedYet, RemoveLog, RemoveBackup, RemoveFails, RemoveDir
<1>4. CASE UNCHANGED vars
  BY <1>4 DEF NotFailedYet, vars
<1> QED
  BY <1>1, <1>2, <1>3, <1>4 DEF Next, Quiescent

\* Who has a job to do is not there once the removal has begun in time.
LEMMA ClearedWorks ==
  ASSUME Cleared, UnderWay, UNCHANGED <<entry, hurried>>
  PROVE  Cleared'
BY DEF Cleared

LEMMA ClearedStep == TypeOK /\ NotFailedYet /\ Cleared /\ [Next]_vars => Cleared'
<1> SUFFICES ASSUME TypeOK, NotFailedYet, Cleared, [Next]_vars PROVE Cleared'
  OBVIOUS
<1> USE DEF Removing, appendVars
<1>1. ASSUME NEW l \in Line, Catch(l) PROVE Cleared'
  BY <1>1 DEF Catch, Cleared
<1>2. ASSUME NEW h \in Handler, Begin(h) PROVE Cleared'
  BY <1>2, ClearedWorks DEF Begin, UnderWay
<1>3. ASSUME NEW h \in Handler, AppendStep(h) PROVE Cleared'
  <2>1. Busy(h) /\ UNCHANGED <<entry, hurried>>
    BY <1>3 DEF AppendStep, Measure, Unlink, Move, AppendLine, AppendFails, Busy
  <2> QED
    BY <2>1, ClearedWorks DEF UnderWay
<1>9. ASSUME NEW h \in Handler, PrepareDir(h) PROVE Cleared'
  BY <1>9, ClearedWorks DEF PrepareDir, UnderWay
<1>4. CASE Load \/ Unload
  BY <1>4 DEF Load, Unload, Cleared
<1>5. CASE Crash
  BY <1>5 DEF Crash, Cleared, Intact
<1>6. CASE RemoveLog \/ RemoveBackup \/ RemoveFails \/ RemoveDir
  <2>1. UnderWay' <=> UnderWay
    BY <1>6 DEF RemoveLog, RemoveBackup, RemoveFails, RemoveDir, UnderWay, Busy
  <2>2. ASSUME ~hurried' PROVE ~UnderWay'
    BY <1>6, <2>1, <2>2 DEF RemoveLog, RemoveBackup, RemoveFails, RemoveDir, Cleared
  <2>3. ASSUME ~hurried' PROVE exists' \subseteq StillThere'
    <3>1. CASE RemoveLog
      BY <3>1 DEF RemoveLog, Removed, StillThere, TypeOK, Path
    <3>2. CASE RemoveBackup
      BY <2>3, <3>2 DEF RemoveBackup, BackupRemoved, Removed, Cleared, StillThere
    <3>3. CASE RemoveFails
      BY <2>3, <3>3 DEF RemoveFails, Cleared, StillThere, LeftBy, TypeOK, Path, fileVars
    <3>4. CASE RemoveDir
      BY <2>3, <3>4 DEF RemoveDir, Cleared, StillThere, LeftBy, NotFailedYet
    <3> QED
      BY <1>6, <3>1, <3>2, <3>3, <3>4
  <2> QED
    BY <2>2, <2>3 DEF Cleared
<1>8. CASE UNCHANGED vars
  BY <1>8 DEF vars, fileVars, Cleared, StillThere, UnderWay, Busy
<1> QED
  BY <1>1, <1>2, <1>3, <1>4, <1>5, <1>6, <1>8, <1>9 DEF Next, Quiescent
-----------------------------------------------------------------------------
(* The invariant, and what it is for.                                       *)

LEMMA RotationAlways ==
  Spec => [](TypeOK /\ Ordered /\ Sized /\ Shared /\ NotFailedYet /\ Cleared)
<1> DEFINE I == TypeOK /\ Ordered /\ Sized /\ Shared /\ NotFailedYet /\ Cleared
<1>1. Init => I
  BY TypedInit, OrderInit, SizeInit, SharedInit DEF Init, NotFailedYet, Cleared, Removing
<1>2. I /\ [Next]_vars => I'
  BY TypedStep, OrderStep, SizeStep, SharedStep, FailedStep, ClearedStep
<1> QED
  BY <1>1, <1>2, PTL DEF Spec

\* As long as no two handlers were inside an append at once, neither file is
\* longer than what a report takes of it; and it never is longer than so much
\* for each handler that was made, however their appends interleave.
THEOREM FilesStayBounded == Spec => []SizeBound
<1>1. TypeOK /\ Sized /\ Shared => SizeBound
  <2> SUFFICES ASSUME TypeOK, Sized, Shared PROVE SizeBound
    OBVIOUS
  <2>1. ~overlap => \A f \in Path : size[f] <= Cap(1)
    BY CapFacts DEF Sized, AloneFits, Path
  <2>2. size["log"] <= Cap(handler) /\ size["backup"] <= Cap(handler)
    <3>1. /\ handler \in Nat /\ size["log"] \in Nat /\ Appending \in SUBSET (1 .. handler)
          /\ \A h \in Appending : bytes[h] \in 0 .. MaxBytes
      BY HandlersAssumption DEF TypeOK, Path, Shared, Made, Appending, Busy, Handler
    <3> QED
      BY <3>1, FitBounds DEF Shared
  <2> QED
    BY <2>1, <2>2 DEF SizeBound, Path, Cap
<1> QED
  BY <1>1, RotationAlways, PTL

\* As long as no two handlers were inside an append at once, what is kept once old
\* lines were dropped is more than a full file, short at most of the one line the
\* last rotation was made for, as long as that is not written or if it never was.
THEOREM EnoughIsKept == Spec => []Retention
<1>1. Sized => Retention
  BY DEF Sized
<1> QED
  BY <1>1, RotationAlways, PTL

\* An entry that was removed while no line and no preparation of the directory
\* was under way, by a process that lived through it, has nothing left but what
\* its removal failed to remove and had yet to remove then; however many reloads,
\* lines and rotations there were before, and whichever of its steps failed.
THEOREM NothingStays == Spec => []NothingLeftBehind
<1>1. Cleared => NothingLeftBehind
  BY DEF Cleared, NothingLeftBehind, StillThere, Removing
<1> QED
  BY <1>1, RotationAlways, PTL

\* All parts of the inductive invariant the run checks.
THEOREM RotationInvariant == Spec => []RotationInv
<1>1. Ordered /\ Sized /\ Shared /\ NotFailedYet /\ Cleared => RotationInv
  BY SharedParts DEF Ordered, Sized, RotationInv
<1> QED
  BY <1>1, RotationAlways, PTL
=============================================================================
