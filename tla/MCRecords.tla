------------------------------ MODULE MCRecords ------------------------------
(* Instances of Records for TLC. *)
EXTENDS Records, TLC

CONSTANTS
  t1, t2, p1, p2, r1

TwoProcesses == {p1, p2}
TwoThreads == {t1, t2}

\* The tables of the database; the migration declares those of the entities, with
\* the same references, and takes down what it creates.
Data == INSTANCE SchemaTables
EveryReference == Data!Entities
LateOnes == Data!Late
Sorted == Data!SortedEntities
Upgraded == Data!Created
Downgraded == Data!TakenDown

ASSUME MigrationMatchesEntities ==
  LET migration == {Data!Migration[i] : i \in DOMAIN Data!Migration}
  IN  /\ {t.name : t \in migration} = DOMAIN Data!Entities
      /\ \A t \in migration : t.refs = Data!Entities[t.name]

\* Two scripts at once; three in a row, with a hotlist as long as the seeded one.
Together == [processes |-> {p1, p2}, others |-> {}, starts |-> 2]
InARow == [processes |-> {p1}, others |-> {"O1", "O2", "O3", "O4", "O5", "O6", "O7"},
           starts |-> 3]
BothWays == {Together, InARow}
OneByOne == {InARow}
DrawnPlates == [n \in 1..3 |-> "GJ01DM" \o ToString(n)]

\* A chief who decides, and a guest of another department.
Two == {"chief", "guest"}
Chief == {"chief"}
Departments == [u \in Two |-> [department |-> IF u = "chief" THEN "HOME_POLICE" ELSE "GMB",
                               district |-> "Surat"]]
InnerCamera == {"inner"}
Inner == [c \in InnerCamera |-> [department |-> "AMC", district |-> "Ahmedabad",
                                 scope |-> "INTERNAL_ONLY"]]
OneRequest == {r1}
AnHour == {1}

\* One thread and the boundary of the minute; two threads; a bundle of two.
TwoAdapters == {"vahan", "egujcop"}
Boundary == [threads |-> {t1}, bundle |-> <<"vahan">>, limit |-> 2, time |-> 3, calls |-> 4,
             switches |-> 1]
Shared == [threads |-> {t1, t2}, bundle |-> <<"vahan">>, limit |-> 1, time |-> 2,
           calls |-> 2, switches |-> 1]
Bundled == [Shared EXCEPT !.threads = {t1}, !.bundle = <<"vahan", "egujcop">>]
ThreeDeployments == {Boundary, Shared, Bundled}

\* The processes are alike, and the threads are, wherever they appear together.
Alike == Permutations({p1, p2}) \cup Permutations({t1, t2})
=============================================================================
