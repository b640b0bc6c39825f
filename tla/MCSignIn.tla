------------------------------- MODULE MCSignIn -------------------------------
(***************************************************************************)
(* An instance of SignIn for TLC: one client's requests to read and to     *)
(* write, and another client's for the same scopes as the first.           *)
(***************************************************************************)
EXTENDS SignIn, TLC

Ask(client, services, readonly, driveScope) ==
  [client |-> client, forceConsent |-> FALSE,
   options |-> [services |-> services, readonly |-> readonly, driveScope |-> driveScope]]

ThreeWishes == {
  Ask("default", {"drive"}, TRUE, "file"),
  Ask("default", {"docs", "gmail"}, FALSE, ""),
  Ask("work", {"drive"}, FALSE, "readonly") }

Symmetry == Permutations(Processes)
==============================================================================
