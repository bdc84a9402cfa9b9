---------------------------- MODULE MCWorkflowRun ---------------------------
EXTENDS WorkflowRun
\* A host call that may fail the run, two agents in parallel, an agent whose
\* failure is caught, and await_user.
MCScript == <<[kind |-> "call", n |-> 1, catch |-> FALSE],
              [kind |-> "parallel", n |-> 2, catch |-> FALSE],
              [kind |-> "agent", n |-> 1, catch |-> TRUE],
              [kind |-> "await", n |-> 1, catch |-> FALSE]>>
=============================================================================
