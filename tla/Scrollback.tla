----------------------------- MODULE Scrollback -----------------------------
(***************************************************************************)
(* What the terminal promises of the rows it keeps, whatever it does with  *)
(* the memory they are in: the log is the last rows that left the normal   *)
(* screen at its top, as they were when they left; it grows in no other    *)
(* way; and the screen that is not shown does not change.  The only        *)
(* operation on all rows at once is a resize, which cuts them.             *)
(***************************************************************************)
EXTENDS Row

CONSTANTS LogCapacity, Widths, Heights

VARIABLES
  log,      \* The rows that left the screen, the oldest first.
  screens,  \* The rows of the normal and the alternate screen.
  current   \* The one that is shown.

vars == <<log, screens, current>>

EmptyRow == [cells |-> <<>>, wrapped |-> FALSE]
Names == {"normal", "alternate"}
Rows == DOMAIN screens[current]

Init ==
  /\ log = <<>>
  /\ \E height \in Heights :
       screens = [s \in Names |-> [i \in 0..height - 1 |-> EmptyRow]]
  /\ current = "normal"

(* The current screen changes in its place. *)
Edit ==
  /\ DOMAIN screens'[current] = Rows
  /\ screens' = [screens EXCEPT ![current] = screens'[current]]
  /\ UNCHANGED <<log, current>>

(* The normal screen moves up by one row.  A character may be what moved   *)
(* it, put in the last row and wrapped from the row before.                *)
Feed ==
  /\ current = "normal"
  /\ log' = LET all == Append(log, screens["normal"][0])
            IN SubSeq(all, Most(Len(all) - LogCapacity, 0) + 1, Len(all))
  /\ DOMAIN screens'["normal"] = Rows
  /\ \A i \in Rows : i + 1 \in Rows =>
       IF i + 2 \in Rows THEN screens'["normal"][i] = screens["normal"][i + 1]
       ELSE screens'["normal"][i].cells = screens["normal"][i + 1].cells
  /\ screens' = [screens EXCEPT !["normal"] = screens'["normal"]]
  /\ UNCHANGED current

(* The other screen is shown, or the same is again; the alternate one is   *)
(* always shown empty.                                                     *)
Switch(s) ==
  /\ current' = s
  /\ screens' = [screens EXCEPT !["alternate"] =
                   IF s = "alternate" THEN [i \in Rows |-> EmptyRow] ELSE @]
  /\ UNCHANGED log

Cut(row, width) == [cells |-> Narrowed(row.cells, width), wrapped |-> FALSE]

Resize(width, height) ==
  /\ log' = [k \in DOMAIN log |-> Cut(log[k], width)]
  /\ screens' = [s \in Names |->
                   [i \in 0..height - 1 |->
                      IF i \in Rows THEN Cut(screens[s][i], width)
                      ELSE EmptyRow]]
  /\ UNCHANGED current

Next ==
  \/ Edit \/ Feed
  \/ \E s \in Names : Switch(s)
  \/ \E width \in Widths, height \in Heights : Resize(width, height)

Spec == Init /\ [][Next]_vars
=============================================================================
