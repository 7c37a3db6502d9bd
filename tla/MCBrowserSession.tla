--------------------------- MODULE MCBrowserSession ---------------------------
(* Containers and tabs are interchangeable, and no property of the run is a  *)
(* liveness property.                                                        *)
EXTENDS BrowserSession, TLC

Symmetry == Permutations(Containers) \cup Permutations(Tabs)

==============================================================================
