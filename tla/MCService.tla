------------------------------ MODULE MCService ------------------------------
(***************************************************************************)
(* ManagerService with a few calls of each kind; every call is made once.  *)
(***************************************************************************)
EXTENDS ManagerService

CONSTANTS Listings, Mutations, BadCalls

MCCalls == Listings \cup Mutations \cup BadCalls
MCKind == [c \in MCCalls |-> IF c \in Listings THEN "list"
                              ELSE IF c \in Mutations THEN "change" ELSE "invalid"]
=============================================================================
