---------------------------- MODULE MCCredentials ----------------------------
(* Small instances for TLC. *)
EXTENDS Credentials

TwoBundles == {[client |-> "c1", secret |-> FALSE, named |-> TRUE],
               [client |-> "c2", secret |-> TRUE, named |-> FALSE]}
==============================================================================
