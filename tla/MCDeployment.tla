---------------------------- MODULE MCDeployment ----------------------------
(* Deployment as the .cfg file of its run instantiates it. *)
EXTENDS Deployment

\* Nothing, 001 to the push records, pipelines and templates under the old
\* name of the tool and with wide vectors, and the latest.
Stops == {0, 10, 13, Latest}
=============================================================================
