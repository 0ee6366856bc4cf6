------------------------------- MODULE Checklist -------------------------------
(***************************************************************************)
(* The checklist of a visit (ChecklistScreen.tsx): ticks kept on the       *)
(* device, read when the screen opens and written after every change.      *)
(***************************************************************************)
EXTENDS Integers, Sequences

CONSTANTS Checks,       \* ids of the checks
          MaxTaps, MaxOpens, MaxDiskFails   \* bounds

ASSUME ChecklistAssumption == {MaxTaps, MaxOpens, MaxDiskFails} \subseteq Nat

VARIABLES
  board,      \* the screen: open, its number, checked (ids tapped or read), loaded
  disk,       \* what the device keeps: checked, as last written
  calls,      \* calls of the storage under way, served in the order made
  used,       \* numbers of taps, openings and failures
  tapped,     \* history: ids tapped since the screen opened, and the ticks then seen
  kept,       \* history: ids ever kept on the device
  dirty       \* history: the last write failed, or was lost with the app
checkVars == <<board, disk, calls, used, tapped, kept, dirty>>

Empty == [c \in {} |-> FALSE]
\* { ...f, ...g }: what g has hides what f has.
Spread(f, g) == [c \in DOMAIN f \union DOMAIN g |-> IF c \in DOMAIN g THEN g[c] ELSE f[c]]
One(c, tick) == [d \in {c} |-> tick]
Count(what, bound) == used[what] < bound /\ used' = [used EXCEPT ![what] = @ + 1]
Shut == [open |-> FALSE, id |-> 0, checked |-> Empty, loaded |-> FALSE]
Write(checked) == [op |-> "set", id |-> 0, value |-> checked]

ChecklistInit ==
  /\ disk \in UNION {[S -> BOOLEAN] : S \in SUBSET Checks}
  /\ board = Shut /\ calls = << >> /\ tapped = Empty
  /\ used = [taps |-> 0, opens |-> 0, fails |-> 0]
  /\ kept = DOMAIN disk /\ dirty = FALSE

OpenChecklist ==
  /\ ~board.open /\ Count("opens", MaxOpens)
  /\ board' = [Shut EXCEPT !.open = TRUE, !.id = used.opens + 1]
  /\ calls' = Append(calls, [op |-> "get", id |-> used.opens + 1, value |-> Empty])
  /\ tapped' = Empty
  /\ UNCHANGED <<disk, kept, dirty>>

\* Ticks are shown at once; they are written if what was kept has been read.
Toggle == \E c \in Checks :
  LET tick == ~(c \in DOMAIN board.checked /\ board.checked[c])
      checked == Spread(board.checked, One(c, tick))
  IN  /\ board.open /\ Count("taps", MaxTaps)
      /\ board' = [board EXCEPT !.checked = checked]
      /\ tapped' = Spread(tapped, One(c, tick))
      /\ calls' = IF board.loaded THEN Append(calls, Write(checked)) ELSE calls
      /\ UNCHANGED <<disk, kept, dirty>>

\* Faulty: what was kept overwrites the ticks made before it was read.
MergeOver(read, checked) == Spread(checked, read)

\* What was tapped before the reading stands.
Merge(read, checked) == Spread(read, checked)

\* The reading opens the writing; a screen left in the meantime ignores it.
GetItem ==
  LET checked == Merge(disk, board.checked) IN
  /\ calls # << >> /\ Head(calls).op = "get"
  /\ IF board.open /\ board.id = Head(calls).id
     THEN /\ board' = [board EXCEPT !.checked = checked, !.loaded = TRUE]
          /\ calls' = Append(Tail(calls), Write(checked))
     ELSE calls' = Tail(calls) /\ UNCHANGED board
  /\ UNCHANGED <<disk, used, tapped, kept, dirty>>

\* Without a reading nothing is written until the screen is opened anew.
GetItemFails ==
  /\ calls # << >> /\ Head(calls).op = "get" /\ Count("fails", MaxDiskFails)
  /\ calls' = Tail(calls)
  /\ UNCHANGED <<board, disk, tapped, kept, dirty>>

SetItem ==
  /\ calls # << >> /\ Head(calls).op = "set"
  /\ disk' = Head(calls).value
  /\ kept' = kept \union DOMAIN disk'
  /\ calls' = Tail(calls) /\ dirty' = FALSE
  /\ UNCHANGED <<board, used, tapped>>

SetItemFails ==
  /\ calls # << >> /\ Head(calls).op = "set" /\ Count("fails", MaxDiskFails)
  /\ calls' = Tail(calls) /\ dirty' = TRUE
  /\ UNCHANGED <<board, disk, tapped, kept>>

LeaveChecklist ==
  /\ board.open
  /\ board' = [board EXCEPT !.open = FALSE]
  /\ UNCHANGED <<disk, calls, used, tapped, kept, dirty>>

\* The app is killed: calls not served are lost.
KillApp ==
  /\ board.open \/ calls # << >>
  /\ board' = Shut /\ calls' = << >>
  /\ dirty' = (dirty \/ \E i \in DOMAIN calls : calls[i].op = "set")
  /\ UNCHANGED <<disk, used, tapped, kept>>

ChecklistNext ==
  \/ OpenChecklist \/ Toggle \/ GetItem \/ GetItemFails
  \/ SetItem \/ SetItemFails \/ LeaveChecklist \/ KillApp

-----------------------------------------------------------------------------
(* Properties.                                                             *)

\* A tick stays as the reader made it, also if it was made before what is kept
\* was read; once that was read and the writes are done the device keeps what
\* the screen shows; and no id kept is ever dropped, by a failed reading either.
ChecksKept ==
  /\ board.open => \A c \in DOMAIN tapped : board.checked[c] = tapped[c]
  /\ board.open /\ board.loaded /\ calls = << >> /\ ~dirty => disk = board.checked
  /\ kept \subseteq DOMAIN disk

=============================================================================
