---------------------------- MODULE MCDesktopFeed ----------------------------
(* A small instance of DesktopFeed.                                        *)
EXTENDS DesktopFeed

CONSTANTS s1, s2
=============================================================================
