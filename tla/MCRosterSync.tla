---------------------------- MODULE MCRosterSync ----------------------------
(* Two clients, one of which uses versions; a mailbox of one stanza.        *)
EXTENDS RosterSync, TLC
CONSTANTS c1, c2
MCClients == {c1, c2}
MCVersioned == {c1}
=============================================================================
