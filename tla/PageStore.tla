----------------------------- MODULE PageStore ------------------------------
(***************************************************************************)
(* What writing pages of flash promises when power may be lost at any      *)
(* time: nothing but the pages that were asked for is touched, a page that *)
(* is written comes to hold what was asked for, and when no power was lost *)
(* all of them do.                                                         *)
(***************************************************************************)
EXTENDS Naturals

CONSTANTS Page, Content, Torn, Cuts

VARIABLES
  pages,     (* what each page holds, or Torn                               *)
  wanted,    (* the pages that are being written, and what they are to hold *)
  cuts       (* how often power was lost                                    *)

vars == <<pages, wanted, cuts>>

Nothing == [p \in {} |-> Torn]

Init ==
  /\ pages \in [Page -> Content]
  /\ wanted = Nothing
  /\ cuts = 0

Write ==
  /\ wanted = Nothing
  /\ \E some \in (SUBSET Page) \ {{}} : wanted' \in [some -> Content]
  /\ UNCHANGED <<pages, cuts>>

Erase(p) ==
  /\ p \in DOMAIN wanted
  /\ pages' = [pages EXCEPT ![p] = Torn]
  /\ UNCHANGED <<wanted, cuts>>

Fill(p) ==
  /\ p \in DOMAIN wanted
  /\ pages' = [pages EXCEPT ![p] = wanted[p]]
  /\ UNCHANGED <<wanted, cuts>>

End ==
  /\ \A p \in DOMAIN wanted : pages[p] = wanted[p]
  /\ wanted' = Nothing
  /\ UNCHANGED <<pages, cuts>>

Cut ==
  /\ cuts' = cuts + 1
  /\ wanted' = Nothing
  /\ UNCHANGED pages

Next ==
  \/ Write \/ End \/ Cut
  \/ \E p \in Page : Erase(p) \/ Fill(p)

Spec == Init /\ [][Next]_vars
=============================================================================
