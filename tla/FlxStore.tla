------------------------------ MODULE FlxStore ------------------------------
(***************************************************************************)
(* What a .flx index promises: it is a finite map from the keys of the     *)
(* grids (element, reference time, unit and the like, grid definition,     *)
(* valid time) to the places where their values are.  A grid that is       *)
(* inserted replaces the one of the same key and leaves the others alone.  *)
(***************************************************************************)
CONSTANTS Key, Place

(* The store after the insertion of one grid.                              *)
Put(store, k, p) == {e \in store : e.key # k} \cup {[key |-> k, place |-> p]}

VARIABLES
    key, place,  \* the grid inserted last
    store

vars == <<key, place, store>>

Init == /\ key \in Key
        /\ place \in Place
        /\ store = {}

Insert == /\ key' \in Key
          /\ place' \in Place
          /\ store' = Put(store, key', place')

Spec == Init /\ [][Insert]_vars
===============================================================================
