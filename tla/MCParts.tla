-------------------------------- MODULE MCParts --------------------------------
(* The instance of Parts for TLC.                                          *)
EXTENDS Parts

MCRows == <<"session">>

\* Bounds: no receipts of an older version, and of the documents an older
\* version may have left those that say their interval once, hold a field this
\* version does not know and have not had the checks for updates switched on.
MCInit == /\ Init
          /\ \A k \in DOMAIN legacy : legacy[k] = None
          /\ settings # Missing => /\ settings.schema \in {None, 1, 2}
                                 /\ None \in {settings.poll, settings.legacyPoll}
                                 /\ "unknown" \in settings.keys /\ settings.checks # TRUE

MCSpec == MCInit /\ [][Next]_vars
================================================================================
