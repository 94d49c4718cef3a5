---------------------------- MODULE MCRunIngest ----------------------------
(***************************************************************************)
(* Instances of RunIngest: two clients, and the pairs of jobs that can     *)
(* meet on a run id, a project or a batch.                                 *)
(***************************************************************************)
EXTENDS RunIngest, TLC

CONSTANTS c1, c2, o1, o2, t1, t2, run_1

Push(org, id, keyed) ==
  [kind |-> "push", org |-> org, id |-> id, project |-> "rag", keyed |-> keyed]
Otlp(org, batch) == [kind |-> "otlp", org |-> org, admin |-> FALSE, batch |-> batch]
Admin(j) == [j EXCEPT !.admin = TRUE]
Block(project, spans) == [project |-> project, spans |-> spans]
Span(n, trace, gen_ai) == [n |-> n, trace |-> trace, gen_ai |-> gen_ai]

Rag == Block("rag", <<Span(1, NoTrace, TRUE), Span(2, t1, TRUE)>>)
Bot == Block("bot", <<Span(3, t1, FALSE), Span(4, t1, TRUE), Span(5, t2, TRUE)>>)
Untraced == Block("rag", <<Span(6, NoTrace, TRUE)>>)

Pair(a, b) == c1 :> a @@ c2 :> b

\* The same run twice; without the header; from two orgs; a push and a batch
\* for one new project; two collectors that deliver the same blocks in
\* opposite orders; batches with a block twice, and with two blocks without any
\* trace id.  Only the first client retries.
MCJobs ==
  {Pair(Push(o1, run_1, TRUE), Push(o1, run_1, TRUE)),
   Pair(Push(o1, run_1, FALSE), Push(o1, run_1, TRUE)),
   Pair(Push(o1, run_1, TRUE), Push(o2, run_1, TRUE)),
   Pair(Push(o1, run_1, TRUE), Otlp(o1, <<Rag>>)),
   Pair(Otlp(o1, <<Rag>>), Push(o1, run_1, TRUE)),
   Pair(Otlp(o1, <<Rag, Bot>>), Otlp(o1, <<Bot, Rag>>)),
   Pair(Otlp(o1, <<Rag>>), Admin(Otlp(o2, <<Rag>>))),
   Pair(Otlp(o1, <<Rag, Rag>>), Otlp(o1, <<Untraced, Untraced>>)),
   Pair(Otlp(o1, <<Untraced>>), Otlp(o1, <<Bot>>))}

\* The only push of a run, into a project that a collector may have made before:
\* two attempts that make it wait for each other there.
MCOnePush == {Pair(Push(o1, run_1, TRUE), Otlp(o1, <<Rag>>))}

\* The sampler drops trace t2.
MCKept == {NoTrace, t1}

MCMaxRetries == c1 :> 1 @@ c2 :> 0

\* A worker for each request, or one for all.
OwnWorker == [r \in Request |-> r]
OneWorker == [r \in Request |-> "w"]
=============================================================================
