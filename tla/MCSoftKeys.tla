---- MODULE MCSoftKeys ----
(* Three keys and a page with room for a few characters.  The characters are
   two values of a byte that also are pointers into the page. *)
EXTENDS SoftKeys

\* A page that is spoilt is left there: nothing is claimed of what follows.
Unspoilt == spoilt = {}
====
