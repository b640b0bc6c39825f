------------------------------ MODULE MCAccounts ------------------------------
(***************************************************************************)
(* An instance of Accounts for TLC: one email and two clients, which may   *)
(* both know it, and machines that differ in what keyring.Open does.       *)
(***************************************************************************)
EXTENDS Accounts

TwoClients == {"default", "work"}

Machine(linux, variable, setting, dbus) ==
  [linux |-> linux, variable |-> variable, setting |-> setting, dbus |-> dbus]

Machines == {
  Machine(TRUE, "", "", TRUE),          \* a desktop
  Machine(TRUE, "", "", FALSE),         \* a server
  Machine(TRUE, "", "pass", TRUE) }

NoOverrideOrDefault == {"", "default"}

Domains == [e \in Emails |-> "work"]

\* The domain's name is a client's: its credentials file says so.
WorkConfig ==
  [accountClients |-> <<>>, clientDomains |-> <<>>, credentials |-> {"default", "work"}]

AllThreads == Requests \cup Commands
==============================================================================
