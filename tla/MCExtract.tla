------------------------------ MODULE MCExtract ------------------------------
(* The options of a run of Extract. *)
EXTENDS Extract

\* Each option by itself, for they matter to different containers, and --strict
\* also with py7zr, which it turns down.
MCOptions ==
  {o \in [strict : BOOLEAN, password : BOOLEAN,
          backend : {"builtin", "py7zr"}, handoff : BOOLEAN] :
     Cardinality({x \in {"strict", "password", "backend", "handoff"} :
                    o[x] = IF x = "backend" THEN "py7zr" ELSE TRUE})
       <= IF o.strict /\ o.backend = "py7zr" THEN 2 ELSE 1}

\* The command-line program.
MCShipped == {o \in MCOptions : ~o.handoff}
=============================================================================
