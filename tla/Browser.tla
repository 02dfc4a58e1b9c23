------------------------------ MODULE Browser -------------------------------
(***************************************************************************)
(* The dashboard (src/dashboard) in one browser tab.  One page is mounted  *)
(* at a time; its React state is made afresh when it is, and what a timer  *)
(* or a promise of a page that has been left sets has no effect.  So the   *)
(* state of all pages is one variable, whose value is a record that        *)
(* depends on the page.                                                    *)
(***************************************************************************)

VARIABLES page,  \* the route
          local  \* the state of its components

(* A link or router.push: the components of the new page start anew.       *)
Open(p, fresh) == page' = p /\ local' = fresh

On(p) == page = p

(* A handler that sets state of the page.                                  *)
Set(state) == local' = state /\ UNCHANGED page

=============================================================================
