---------------------------- MODULE MCSandboxHelper ----------------------------
EXTENDS SandboxHelper

CONSTANTS p, q, g, h

\* A policy for each group that is as strict as it can be.
Strict == [mode |-> "external", deny_loopback |-> TRUE, deny_private |-> TRUE,
           read_only |-> {"data"}, environment |-> {"PLAIN"}]

\* Everything a file may say about who belongs where, under strict policies.
Names == {[default |-> d, members |-> m, explicit |-> e,
           environment |-> [x \in Processes |-> {}],
           policy |-> [x \in Groups |-> Strict]] :
            d \in {g, Unknown}, m \in [Groups -> SUBSET (Processes \cup {Unknown})],
            e \in [Processes -> Groups \cup {Unknown, None}]}

\* Everything a policy may ask for, at most one path and one variable each.
Policies == {[default |-> g, members |-> [x \in Groups |-> {}],
              explicit |-> [x \in Processes |-> None],
              environment |-> [x \in Processes |-> own],
              policy |-> [x \in Groups |->
                [mode |-> m, deny_loopback |-> l, deny_private |-> r,
                 read_only |-> paths, environment |-> keys]]] :
               m \in {"none", "external"}, l \in BOOLEAN, r \in BOOLEAN,
               paths \in {{}} \cup {{path} : path \in Paths},
               keys \in {{}, {"PATH"}}, own \in {{}} \cup {{k} : k \in Keys}}

MCConfigs == Names \cup Policies
=============================================================================
