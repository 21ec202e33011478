----------------------- MODULE MCElasticsearchStorage -----------------------
(* A small instance of ElasticsearchStorage for TLC.                       *)
EXTENDS ElasticsearchStorage

Section(count, shared, managed) ==
    [count |-> count, policy |-> IF shared THEN "FullRedundancy" ELSE "",
     doNotProvision |-> shared, useCertManagement |-> managed]
Object(count) == [there |-> TRUE, ours |-> FALSE, nodes |-> <<count>>]

\* the certificates of a cluster that the instance provisions; the count of
\* such a cluster; the count of a cluster that the instance shares
MCScenarios ==
    {[section |-> Section(0, FALSE, FALSE), object |-> NoObject,
      happens |-> {"certificates", "crash"}],
     [section |-> Section(0, FALSE, TRUE), object |-> NoObject,
      happens |-> {"users", "crash"}],
     [section |-> Section(2, TRUE, TRUE), object |-> Object(2),
      happens |-> {"users", "crash"}]}
=============================================================================
