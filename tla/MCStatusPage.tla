---------------------------- MODULE MCStatusPage ----------------------------
EXTENDS StatusPage
CONSTANTS a, b

Whole == [ids |-> {a, b}, public |-> {a, b}]
Without == [ids |-> {b}, public |-> {b}]
Private == [ids |-> {a, b}, public |-> {b}]

Files == [incidents |-> {Whole, Without}, writes |-> {Whole, Without},
          requests |-> {Whole, Without, Private}]
Reloads == [incidents |-> 2, writes |-> 2, requests |-> 1]
=============================================================================
