---------------------------- MODULE DatabaseResults ----------------------------
(***************************************************************************)
(* The results of the scripts' queries (mysql.cpp, nwscript.cpp).  SQLExec    *)
(* gives a script a "dbresult", a counted pointer to a CScriptDbResultData, and *)
(* puts the result itself in front of mysql_server_results; SQLFetch and the   *)
(* SQLGet functions take no dbresult: they read whatever result is in front.   *)
(* When the last copy of a dbresult goes, the first result with its pointer is *)
(* taken out.  A query without rows (an UPDATE) has the pointer NULL: all such *)
(* results look alike.                                                        *)
(*                                                                          *)
(* Copies are in the variables of the running scripts, which run inside one   *)
(* another, and in the commands they delayed.  The database is external: a     *)
(* query fails, or has rows, or has none.                                     *)
(***************************************************************************)
EXTENDS Integers, Sequences, FiniteSetsExt, SequencesExt

CONSTANTS
  DbResults,  \* CScriptDbResultData
  Pointers,   \* MYSQL_RES
  NULL,
  Delayed,    \* bound: delayed commands that hold a dbresult
  MaxRows,    \* bound: rows of a result
  MaxScripts  \* bound: scripts inside one another

ASSUME DatabaseResultsAssumption ==
  /\ NULL \notin Pointers
  /\ MaxRows \in Nat /\ MaxScripts \in Nat

VARIABLES
  mysql_server_results,
  last_sql_query_error_code,
  mysql_result,  \* the pointer of each dbresult that was made
  made,          \* history: the dbresults there are, the oldest first
  scripts,       \* the dbresults in the variables of each running script
  delayed        \* those in each delayed command

vars == <<mysql_server_results, last_sql_query_error_code, mysql_result, made,
          scripts, delayed>>

\* A CMySQLRes.  row is the row it is at: none yet, one of its rows, or past the last.
CMySQLRes == [mysql_result : Pointers \union {NULL}, row : 0..(MaxRows + 1)]

TypeOK ==
  /\ mysql_server_results \in Seq(CMySQLRes)
  /\ last_sql_query_error_code \in {0, 1}
  /\ mysql_result \in [DbResults -> Pointers \union {NULL}]
  /\ made \in Seq(DbResults)
  /\ scripts \in Seq(SUBSET DbResults)
  /\ delayed \in [Delayed -> SUBSET DbResults]

Init ==
  /\ mysql_server_results = << >>
  /\ last_sql_query_error_code = 0
  /\ mysql_result = [h \in DbResults |-> NULL]
  /\ made = << >>
  /\ scripts = << >>
  /\ delayed = [d \in Delayed |-> {}]

Running == scripts # << >>
Depth == Len(scripts)

Held(ss, ds) == (UNION Range(ss)) \union (UNION Range(ds))

\* Mutant of Erased: the search starts at the other end.
ErasedFromTheBack(results, p) ==
  LET Same(r) == r.mysql_result = p IN
  IF \E i \in DOMAIN results : Same(results[i])
  THEN RemoveAt(results, SelectLastInSeq(results, Same)) ELSE results

\* ~CScriptDbResultData.
Erased(results, p) ==
  LET Same(r) == r.mysql_result = p IN
  IF \E i \in DOMAIN results : Same(results[i])
  THEN RemoveAt(results, SelectInSeq(results, Same)) ELSE results

\* A copy of the dbresult goes and these are left: the dbresult is destroyed
\* when there is no other.
DestroyGameDefinedStructure(h, ss, ds) ==
  /\ scripts' = ss /\ delayed' = ds
  /\ \/ /\ h \in Held(ss, ds)
        /\ UNCHANGED <<made, mysql_server_results>>
     \/ /\ h \notin Held(ss, ds)
        /\ made' = RemoveFirst(made, h)
        /\ mysql_server_results' = Erased(mysql_server_results, mysql_result[h])
  /\ UNCHANGED <<last_sql_query_error_code, mysql_result>>

results == <<mysql_server_results, last_sql_query_error_code, mysql_result, made>>

RunScript ==
  /\ Depth < MaxScripts
  /\ scripts' = Append(scripts, {})
  /\ UNCHANGED <<results, delayed>>

\* A delayed command takes its copies with it when it runs.
RunScriptSituation(d) ==
  /\ ~Running /\ MaxScripts > 0 /\ delayed[d] # {}
  /\ scripts' = <<delayed[d]>>
  /\ delayed' = [delayed EXCEPT ![d] = {}]
  /\ UNCHANGED results

\* A variable is given another value, or its block ends, or the script: the variables
\* go one by one.
DropVariable(h) ==
  /\ Running /\ h \in scripts[Depth]
  /\ DestroyGameDefinedStructure(h, [scripts EXCEPT ![Depth] = @ \ {h}], delayed)

\* All its variables are gone.
ScriptEnds ==
  /\ Running /\ scripts[Depth] = {}
  /\ scripts' = Front(scripts)
  /\ UNCHANGED <<results, delayed>>

\* The command gets copies of variables of the script.
DelayCommand(d, hs) ==
  /\ Running /\ hs \subseteq scripts[Depth]
  /\ delayed[d] = {} /\ hs # {}
  /\ delayed' = [delayed EXCEPT ![d] = hs]
  /\ UNCHANGED <<results, scripts>>

\* The object that was to run the command is destroyed, or its actions cleared: its
\* copies go one by one.  A command that lost some is like one that had fewer.
DropDelayed(d, h) ==
  /\ h \in delayed[d]
  /\ DestroyGameDefinedStructure(h, scripts, [delayed EXCEPT ![d] = @ \ {h}])

\* SQLExec and SQLCoreExec.
SQLExec ==
  /\ Running
  /\ \/ /\ last_sql_query_error_code' = 1
        /\ UNCHANGED <<mysql_server_results, mysql_result, made, scripts, delayed>>
     \/ \E h \in DbResults \ ToSet(made), p \in Pointers \union {NULL} :
          /\ p # NULL => \A i \in DOMAIN mysql_server_results :
                           mysql_server_results[i].mysql_result # p
          /\ last_sql_query_error_code' = 0
          /\ mysql_server_results' =
               <<[mysql_result |-> p, row |-> 0]>> \o mysql_server_results
          /\ mysql_result' = [mysql_result EXCEPT ![h] = p]
          /\ made' = Append(made, h)
          /\ scripts' = [scripts EXCEPT ![Depth] = @ \union {h}]
          /\ UNCHANGED delayed

\* Any other query: its result, if it has one, is gone when it returns.
Query ==
  /\ last_sql_query_error_code' \in {0, 1}
  /\ UNCHANGED <<mysql_server_results, mysql_result, made, scripts, delayed>>

FetchRow(i) ==
  /\ i \in DOMAIN mysql_server_results
  /\ mysql_server_results[i].mysql_result # NULL
  /\ \E row \in {mysql_server_results[i].row + 1, MaxRows + 1} :
       /\ row <= MaxRows + 1
       /\ mysql_server_results' = [mysql_server_results EXCEPT ![i].row = row]
  /\ UNCHANGED <<last_sql_query_error_code, mysql_result, made, scripts, delayed>>

\* Mutant of SQLFetch: it reads the oldest result.
SQLFetchBack == Running /\ FetchRow(Len(mysql_server_results))

\* Nothing comes of it when no result is there or the one in front has no rows.
SQLFetch == Running /\ FetchRow(1)

Next ==
  \/ RunScript
  \/ ScriptEnds
  \/ \E h \in DbResults :
       \/ DropVariable(h)
       \/ \E d \in Delayed : DropDelayed(d, h)
  \/ \E d \in Delayed :
       \/ RunScriptSituation(d)
       \/ \E hs \in SUBSET DbResults : DelayCommand(d, hs)
  \/ SQLExec
  \/ Query
  \/ SQLFetch

Spec == Init /\ [][Next]_vars

-----------------------------------------------------------------------------
Results(p) == {i \in DOMAIN mysql_server_results : mysql_server_results[i].mysql_result = p}

\* As long as there is a copy of a dbresult its result is there, and no longer,
\* though results are found again by a pointer that several have (NULL), or
\* that was another's before.  The results with rows are in front of those of
\* older queries, and each has at most as many results in front of it as queries
\* were made after it, so that the newest one is the one the scripts read.
ResultsHeld ==
  /\ TypeOK
  /\ ToSet(made) = Held(scripts, delayed)
  /\ \A p \in Pointers \union {NULL} :
       Cardinality(Results(p)) = Cardinality({h \in ToSet(made) : mysql_result[h] = p})
  /\ \A k \in DOMAIN made :
       mysql_result[made[k]] # NULL =>
         \E i \in Results(mysql_result[made[k]]) : i <= Len(made) - k + 1
  /\ \A k, l \in DOMAIN made :
       k < l /\ mysql_result[made[k]] # NULL /\ mysql_result[made[l]] # NULL =>
         \A i \in Results(mysql_result[made[k]]), j \in Results(mysql_result[made[l]]) : j < i

\* SQLFetch takes a row of the newest query with rows that is still held, and no
\* other's: a script inside another that let go of its results leaves the outer
\* one at the row it was at.  Only while the newest dbresult has no rows may
\* the row be an older one's.
RowsOfNewest ==
  [][\A p \in Pointers : \A i \in Results(p), j \in Results(p)' :
       mysql_server_results'[j].row # mysql_server_results[i].row =>
         mysql_result[Last(made)] \in {p, NULL}]_vars
=============================================================================
