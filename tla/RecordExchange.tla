----------------------------- MODULE RecordExchange -----------------------------
(****************************************************************************)
(* One ZIP archive that is interpreted in the supervisor and verified in    *)
(* the worker: the plan crosses as a planning record, the worker executes   *)
(* it member by member, its two answers come back, the supervisor replays   *)
(* them before it accepts them, and a member of the accepted archive is     *)
(* read through the worker again.                                           *)
(*                                                                          *)
(* Whatever crosses may be changed on the way in one place (Alterations),   *)
(* the worker may answer something else than what it found (Misreports),    *)
(* and one environment fault may hit the execution.  The bytes of the       *)
(* archive are fixed per job.                                               *)
(****************************************************************************)
EXTENDS CompletionRecord

CONSTANTS
    Jobs,       \* the archives and requests: [profile, len, sha, magic, budget, end, members,
                \* payloads, effect, retention]
    Asks        \* the member reads considered: [path, max, kind]

\* Sizes are counts, and every record has a payload, read in pieces.
ASSUME JobsAssumption ==
    \A j \in Jobs :
        /\ j.members \in Seq(Range(j.members))
        /\ \A i \in DOMAIN j.members :
              LET w == j.members[i]
              IN  /\ w.cdh.uncomp \in Nat
                  /\ DataOffset(w.lfh, w.cdh.lfh_offset) \in DOMAIN j.payloads
        /\ \A o \in DOMAIN j.payloads : j.payloads[o].chunks \in Seq(Nat)
        /\ j.retention # <<>> =>
              /\ j.retention[1].paths \in Seq(Range(j.retention[1].paths))
              /\ j.retention[1].max_member \in Nat /\ j.retention[1].max_total \in Nat
              /\ j.retention = <<[paths |-> j.retention[1].paths, max_member |-> j.retention[1].max_member,
                                  max_total |-> j.retention[1].max_total]>>

ASSUME AsksAssumption == \A a \in Asks : a.max \in Nat /\ a.kind \in ReadKinds

VARIABLES
    job,            \* the job at hand
    reading,        \* what the supervisor read and planned of it, or <<>>
    phase,          \* how far it came
    planning,       \* the record the supervisor encoded, or <<>>
    delivered,      \* the record the decoder on the other side is given, or <<>>
    plan,           \* what that decoder made of it, or <<>>
    exec,           \* the worker's execution, or <<>>
    faulted,        \* a fault has hit the execution
    outputs,        \* completion and retained content as the supervisor receives them, or <<>>
    authorized,     \* what the supervisor accepted, or <<>>
    ask,            \* the member read at hand, or <<>>
    request,        \* the member-read request the supervisor encoded, or <<>>
    asked,          \* the request the worker is given, or <<>>
    stream,         \* what came through the read's pipe, or <<>>
    answer          \* what the caller of the read gets, or <<>>

vars == <<job, reading, phase, planning, delivered, plan, exec, faulted, outputs, authorized, ask, request,
          asked, stream, answer>>

OPERATION == 1
READ_OPERATION == 7

(****************************************************************************)
(* The supervisor's side of a job.                                          *)
(****************************************************************************)
\* One turn of the reader, and what its window shows of the source.
ReadTurn(st, w) ==
    LET s == st.scan
        pieces == IF s.stage = "end" THEN ZipEndPieces(w)
                  ELSE IF ZipExhausted(s) THEN <<>> ELSE ZipMemberPieces(s, w)
    IN  IF ~ZipRunning(s) THEN st ELSE [scan |-> ZipStep(s, w), src |-> Both(st.src, pieces)]

\* All turns of the reader, the last one on the exhausted directory.
ReadZip(j) ==
    LET new == [scan |-> NewZipScan(j.profile, j.len, j.budget.max_files, j.budget.max_metadata),
                src |-> <<>>]
        read == FoldLeft(LAMBDA st, w : ReadTurn(st, w), ReadTurn(new, j.end), j.members)
    IN  IF ZipRunning(read.scan) /\ ZipExhausted(read.scan)
        THEN [scan |-> ZipFinish(read.scan), src |-> read.src] ELSE read

\* The evidence of what was read, when it was planned.
Evidence ==
    IF reading[1].result.stage = "planned" THEN <<ZipArchiveIR(reading[1].scan, reading[1].result.plan)>>
    ELSE <<>>

Snapshot == [len |-> job.len, sha |-> job.sha, src |-> reading[1].src, payloads |-> job.payloads]

\* The retained paths are a sorted set.
SortedPaths(paths) ==
    [i \in 1..Cardinality(paths) |->
        CHOOSE p \in paths : Cardinality({q \in paths : PathLess(q, p)}) = i - 1]

BindingOf(j) ==
    [operation |-> OPERATION, source_len |-> j.len, source_sha |-> j.sha, profile |-> j.profile,
     profile_sha |-> j.profile, policy_id |-> "policy", budget |-> j.budget,
     effect |-> j.effect, target |-> IF j.effect = Inspect THEN <<>> ELSE <<"dest">>,
     member_sync |-> TRUE,
     retention |-> IF j.retention = <<>> THEN <<>>
                   ELSE <<[j.retention[1] EXCEPT !.paths = SortedPaths(AddPaths(@))]>>]

\* The axes apply.rs reports for an archive it does not plan.
TerminalAxes(s, result) ==
    IF result.stage = "denied" THEN denied_at_admission
    ELSE parse_failure_axes_for_profile(result.finding, s.profile,
                                        s.end # <<>> /\ s.end[1].pair = <<>> /\ ~s.zip64Seen)

TerminalFindings(result) ==
    IF result.stage = "denied"
    THEN [k \in DOMAIN result.plan.findings |-> Finding(result.plan.findings[k])]
    ELSE <<Finding(result.finding)>>

(****************************************************************************)
(* What may happen to a record on its way.                                  *)
(****************************************************************************)
MemberAlterations(m) ==
    {[m EXCEPT !.raw = <<"z">>], [m EXCEPT !.raw = <<"z">>, !.name = <<"z">>, !.path = <<"z">>],
     [m EXCEPT !.path = <<"z">>], [m EXCEPT !.kind = 1 - @], [m EXCEPT !.kind = 2],
     [m EXCEPT !.method = 8 - @], [m EXCEPT !.flags = @ \cup {"utf8"}],
     [m EXCEPT !.flags = IF "desc" \in @ THEN @ \ {"desc"} ELSE @ \cup {"desc"}],
     [m EXCEPT !.attrs = "none"], [m EXCEPT !.attrs = "symlink"], [m EXCEPT !.crc = @ + 1],
     [m EXCEPT !.uncomp_size = @ + 1], [m EXCEPT !.comp_size = @ + 1],
     [m EXCEPT !.comp_size = @ + 1, !.payload.len = @ + 1], [m EXCEPT !.payload.offset = @ + 1],
     [m EXCEPT !.local_header.len = @ + 1], [m EXCEPT !.local_header.offset = @ + 1],
     [m EXCEPT !.central_header.len = @ - 1], [m EXCEPT !.descriptor = <<>>],
     [m EXCEPT !.normalization = @ \o <<0>>], [m EXCEPT !.extra_fields = <<>>],
     [m EXCEPT !.descriptor = [i \in DOMAIN @ |-> [@[i] EXCEPT !.len = 7 - @]]]}
    \cup (IF m.extra_fields = <<>> THEN {}
          ELSE {[m EXCEPT !.extra_fields = Tail(@)], [m EXCEPT !.extra_fields = Front(@)],
                [m EXCEPT !.extra_fields = SelectSeq(@, LAMBDA f : f.id # "ut")],
                [m EXCEPT !.extra_fields[1].id = "other"],
                [m EXCEPT !.extra_fields[1].disposition = "Semantic"],
                [m EXCEPT !.extra_fields[1].site = "Local"],
                [m EXCEPT !.extra_fields[1].data_range.len = @ - 1]})

IrAlterations(ir) ==
    {[ir EXCEPT !.covering.eocd.offset = @ + 1], [ir EXCEPT !.covering.comment.len = @ + 1],
     [ir EXCEPT !.covering.central_directory.offset = @ - 1,
                !.covering.central_directory.len = @ + 1, !.covering.local_records.len = @ - 1],
     [ir EXCEPT !.members = IF @ = <<>> THEN @ ELSE Front(@)],
     [ir EXCEPT !.members = Reverse(@)], [ir EXCEPT !.members = @ \o @]}
    \cup UNION {{[ir EXCEPT !.members[i] = w] : w \in MemberAlterations(ir.members[i])}
                  : i \in DOMAIN ir.members}
    \cup {[ir EXCEPT !.members[i].central_header.len = @ - 1,
                     !.members[i + 1].central_header = [offset |-> @.offset - 1, len |-> @.len + 1]]
            : i \in 1..(Len(ir.members) - 1)}

Alterations(frame) ==
    LET w == frame.body
        Body(b) == [frame EXCEPT !.body = b]
    IN  {[frame EXCEPT !.kind = "completion"], [frame EXCEPT !.version = 1],
         [frame EXCEPT !.reserved = 1], [frame EXCEPT !.fit = "short"], [frame EXCEPT !.fit = "long"],
         Body([w EXCEPT !.binding.operation = 2]), Body([w EXCEPT !.binding.source_len = @ + 1]),
         Body([w EXCEPT !.binding.source_sha = 0]), Body([w EXCEPT !.binding.profile = 9]),
         Body([w EXCEPT !.binding.profile_sha = ""]), Body([w EXCEPT !.binding.policy_id = "looser"]),
         Body([w EXCEPT !.binding.effect = IF @ = Inspect THEN Materialize ELSE Inspect]),
         Body([w EXCEPT !.binding.target = IF @ = <<>> THEN <<"dest">> ELSE <<>>]),
         Body([w EXCEPT !.binding.budget.max_member = @ + 1]),
         Body([w EXCEPT !.binding.retention = <<>>]),
         Body([w EXCEPT !.disposition.tag = 1]), Body([w EXCEPT !.disposition.tag = 2]),
         Body([w EXCEPT !.findings = <<Finding("CrcMismatch")>>]),
         Body([w EXCEPT !.findings = <<[code |-> "CrcMismatch", severity |-> "Warning"]>>]),
         Body([w EXCEPT !.ir = <<>>])}
        \cup {Body([w EXCEPT !.binding.profile = t, !.binding.profile_sha = ProfileTags[t]])
                : t \in DOMAIN ProfileTags}
        \cup {Body([w EXCEPT !.ir[1] = ir]) : ir \in IrAlterations(w.ir[1])}

\* Another completion with the retained content that fits it.
WithCompletion(out, r) ==
    [completion |-> Frame("completion", r),
     retained |-> [out.retained EXCEPT !.body.completion = Frame("completion", r)]]

\* Every planned member as verified with some content of the declared size.
ClaimedContents(members) ==
    [i \in DOMAIN members |->
        Verified(IF members[i].is_dir THEN EmptyContent
                 ELSE Measured(members[i].uncomp_size, members[i].crc, "claimed"))]

\* Other or no retained bytes.
ClaimedEntry(e) == IF e.bytes = <<>> THEN e ELSE [e EXCEPT !.bytes[1].sha = "claimed"]
DroppedEntry(e, status) == [e EXCEPT !.status = status, !.bytes = <<>>]
OtherEntries(es) ==
    {[es EXCEPT ![i] = DroppedEntry(es[i], status)]
        : i \in DOMAIN es, status \in {"AllocationFailed", "NotFound"}}
    \cup {[es EXCEPT ![i] = ClaimedEntry(es[i])] : i \in DOMAIN es}

\* A failure where there was none.
StoppedRuns(p, r) ==
    {[members |-> SubSeq(r.members, 1, k - 1), finding |-> code]
        : k \in {k \in DOMAIN PlannedMembers(p) :
                    k <= Len(SelectSeq(r.members, LAMBDA s : s.state = "Verified"))},
          code \in {"CrcMismatch", "SourceIo", "MaterializeIo", "QuotaTotal"}}
Stops(p, r) == {CompletionRecordOf(p, x) : x \in StoppedRuns(p, r)}

\* The worker claims all members, another digest with matching retained
\* bytes, a failure where there was none, other or no retained bytes, or
\* answers for another operation.
Misreports(p, out) ==
    LET r == out.completion.body
        es == out.retained.body.entries
        all == [r EXCEPT !.disposition = [tag |-> 0, verified |-> 0, pending |-> 0],
                         !.findings = <<>>, !.members = ClaimedContents(PlannedMembers(p))]
    IN  {WithCompletion(out, s) : s \in {all, [r EXCEPT !.operation = 2]} \cup Stops(p, r)}
        \cup {[out EXCEPT !.retained.body.operation = 2],
              [WithCompletion(out, all) EXCEPT
                  !.retained.body.entries = [i \in DOMAIN es |-> ClaimedEntry(es[i])]]}
        \cup {[out EXCEPT !.retained.body.entries = f] : f \in OtherEntries(es)}

RequestAlterations(frame) ==
    LET w == frame.body
    IN  {[frame EXCEPT !.kind = IF @ = "Full" THEN "Prefix" ELSE "Full"], [frame EXCEPT !.fit = "long"],
         [frame EXCEPT !.body.read = 8], [frame EXCEPT !.body.operation = 2],
         [frame EXCEPT !.body.index = @ + 1], [frame EXCEPT !.body.max = @ + 1],
         [frame EXCEPT !.body.completion.version = 1], [frame EXCEPT !.body.plan_id.version = 1]}
        \cup {[frame EXCEPT !.body.index = i, !.body.path = Evidence[1].members[i].components]
                : i \in DOMAIN Evidence[1].members}

Streams(c) == {c, [c EXCEPT !.sha = "claimed"], [c EXCEPT !.size = @ + 1], EmptyContent}

--------------------------------------------------------------------------------
Init ==
    /\ job \in Jobs
    /\ phase = "start" /\ faulted = FALSE
    /\ reading = <<>> /\ planning = <<>> /\ delivered = <<>> /\ plan = <<>> /\ exec = <<>> /\ outputs = <<>>
    /\ authorized = <<>> /\ ask = <<>> /\ request = <<>> /\ asked = <<>> /\ stream = <<>> /\ answer = <<>>

readVars == <<ask, request, asked, stream, answer>>
workVars == <<exec, faulted, outputs, authorized>>

\* The archive is read to its end or its first finding, and planned.
Interpret ==
    /\ phase = "start"
    /\ \E read \in {ReadZip(job)} :
          reading' = <<[scan |-> read.scan, src |-> read.src,
                        result |-> plan_snapshot(read.scan, job.magic, job.budget)]>>
    /\ phase' = "interpreted"
    /\ UNCHANGED <<job, planning, delivered, plan, workVars, readVars>>

\* An archive that is planned and audited is encoded for the worker.
PreparePlan ==
    /\ phase = "interpreted" /\ Evidence # <<>>
    /\ AuditZip(reading[1].src, job.len, Evidence[1])
    /\ planning' = prepare_ready_plan(BindingOf(job), Evidence[1])
    /\ phase' = IF planning' = <<>> THEN "unsendable" ELSE "sent"
    /\ UNCHANGED <<job, reading, delivered, plan, workVars, readVars>>

\* The record of an archive that is not planned.
EncodeTerminal ==
    /\ phase = "interpreted" /\ Evidence = <<>>
    /\ planning' = encode_planning([binding |-> BindingOf(job), ir |-> <<>>,
                                    findings |-> TerminalFindings(reading[1].result),
                                    disposition |-> Terminal(TerminalAxes(reading[1].scan,
                                                                          reading[1].result), 0)])
    /\ phase' = IF planning' = <<>> THEN "unsendable" ELSE "terminal"
    /\ UNCHANGED <<job, reading, delivered, plan, workVars, readVars>>

\* The record of a plan whose covering the second reading refuses; the
\* evidence may be right all the same, and the cause another.
EncodeCoveringFailure ==
    /\ phase = "interpreted" /\ Evidence # <<>>
    /\ LET honest == PendingIR(Evidence[1], job.sha)
       IN  \E w \in {encode_ir(honest)} \cup IrAlterations(encode_ir(honest)), said \in {Reproduced, "other"} :
             planning' = encode_planning([binding |-> BindingOf(job),
                                          ir |-> <<decode_ir(w, BindingOf(job))>>,
                                          findings |-> <<CoveringCause(said)>>,
                                          disposition |-> Terminal(tar_covering_failure_axes(FALSE), 0)])
    /\ planning' # <<>>
    /\ phase' = "terminal"
    /\ UNCHANGED <<job, reading, delivered, plan, workVars, readVars>>

\* The supervisor's own decoder knows the whole binding.
DecodeTerminal ==
    /\ phase = "terminal"
    /\ delivered' = planning
    /\ plan' = decode_planning_for(planning[1], ExpectExact(BindingOf(job)), Snapshot)
    /\ phase' = "ended"
    /\ UNCHANGED <<job, reading, planning, workVars, readVars>>

Deliver ==
    /\ phase = "sent"
    /\ \E frame \in {planning[1]} \cup Alterations(planning[1]) : delivered' = <<frame>>
    /\ phase' = "delivered"
    /\ UNCHANGED <<job, reading, planning, plan, workVars, readVars>>

\* The worker's decoder, then the executor's own conditions.
WorkerValidates ==
    /\ phase = "delivered"
    /\ plan' = validate_operation(Snapshot, OPERATION, delivered[1], job.effect)
    /\ LET bound == plan' # <<>> /\ BindExecution(plan'[1], Snapshot, job.effect)
       IN  /\ exec' = IF bound THEN <<NewExecution(plan'[1])>> ELSE <<>>
           /\ phase' = IF bound THEN "executing" ELSE IF plan' # <<>> THEN "unbound" ELSE "refused"
    /\ UNCHANGED <<job, reading, planning, delivered, faulted, outputs, authorized, readVars>>

\* One member; at most one fault per execution.
ExecuteNext ==
    /\ phase = "executing" /\ ~ExecutionDone(plan[1], exec[1])
    /\ LET stage == job.effect = Materialize
       IN  \E fault \in {"none"} \cup (IF faulted THEN {} ELSE IF stage THEN Faults ELSE Faults \ StageFaults) :
             /\ exec' = <<ExecuteMember(plan[1], Snapshot, stage, fault, exec[1])>>
             /\ faulted' = (faulted \/ fault # "none")
    /\ UNCHANGED <<job, reading, phase, planning, delivered, plan, outputs, authorized, readVars>>

WorkerAnswers ==
    /\ phase = "executing" /\ ExecutionDone(plan[1], exec[1])
    /\ outputs' = finish_execution(plan[1], exec[1])
    /\ phase' = IF outputs' = <<>> THEN "broken" ELSE "answered"
    /\ UNCHANGED <<job, reading, planning, delivered, plan, exec, faulted, authorized, readVars>>

WorkerMisreports ==
    /\ phase = "answered"
    /\ \E out \in Misreports(plan[1], outputs[1]) : outputs' = <<out>>
    /\ phase' = "misreported"
    /\ UNCHANGED <<job, reading, planning, delivered, plan, exec, faulted, authorized, readVars>>

\* The supervisor replays its own record, not the delivered one.
Authorize ==
    /\ phase \in {"answered", "misreported"}
    /\ authorized' = authorize_execution(Snapshot, OPERATION, planning[1],
                                         outputs[1].completion, outputs[1].retained, job.effect)
    /\ phase' = IF authorized' = <<>> THEN "unauthorized" ELSE "authorized"
    /\ UNCHANGED <<job, reading, planning, delivered, plan, exec, faulted, outputs, readVars>>

(****************************************************************************)
(* Reads of the accepted archive.                                           *)
(****************************************************************************)
Capability ==
    [planned |-> Evidence[1].members, members |-> authorized[1].proposal.members,
     retention |-> authorized[1].retention, budget |-> job.budget]

ReadAuthority == bind_member_read_source(Snapshot, OPERATION, planning[1])

\* What is decided before a worker is asked: the errors of the capability,
\* a retained copy, the ceiling of a prefix.
LocalAnswer(a) ==
    LET found == verified_regular_member(Capability, a.path)
        local == read_member(Capability, Snapshot, a.path, a.max, a.kind)
        size == Capability.members[found.index].content.size
    IN  IF found.error # OK \/ (a.kind = "Full" /\ size > a.max)
           \/ RetainedAt(Capability, a.path) # {} THEN <<local>>
        ELSE IF a.kind = "Prefix" /\ Min({size, a.max}) > MAX_ISOLATED_READ_BYTES
        THEN <<[error |-> "LimitExceeded", content |-> EmptyContent, kept |-> 0]>>
        ELSE <<>>

\* Only a completely verified archive has a capability.
AskMember ==
    /\ phase = "authorized" /\ authorized[1].proposal.verification = "Complete"
    /\ \E a \in Asks, bound \in {ReadAuthority} :
         /\ ask' = <<a>>
         /\ answer' = LocalAnswer(a)
         /\ request' = IF answer' # <<>> \/ bound = <<>> THEN <<>>
                       ELSE encode_kind(bound[1], outputs[1].completion, READ_OPERATION,
                                        a.path, a.max, a.kind)
         /\ phase' = IF answer' # <<>> THEN "read" ELSE IF request' = <<>> THEN "notasked" ELSE "asking"
    /\ UNCHANGED <<job, reading, planning, delivered, plan, workVars, asked, stream>>

DeliverRequest ==
    /\ phase = "asking"
    /\ \E frame \in {request[1]} \cup RequestAlterations(request[1]) : asked' = <<frame>>
    /\ phase' = "asked"
    /\ UNCHANGED <<job, reading, planning, delivered, plan, workVars, ask, request, stream, answer>>

\* The one-shot worker binds plan, completion and request to its source; what
\* comes through the pipe is measured by the supervisor.
WorkerReads ==
    /\ phase = "asked"
    /\ \E bound \in {ReadAuthority} :
       \E valid \in {IF bound = <<>> THEN <<>>
                     ELSE decode_kind(bound[1], outputs[1].completion, asked[1], READ_OPERATION,
                                      ask[1].kind)} :
       \E content \in {IF valid = <<>> THEN <<>> ELSE execute_into(bound[1], Snapshot, valid[1])} :
          IF content = <<>> THEN stream' = <<>> /\ phase' = "unread"
          ELSE /\ \E c \in Streams(content[1]) : stream' = <<c>>
               /\ phase' = "streamed"
    /\ UNCHANGED <<job, reading, planning, delivered, plan, workVars, ask, request, asked, answer>>

\* Nothing is released unless the whole stream is the authorized content.
Release ==
    /\ phase = "streamed"
    /\ LET kept == retained_bytes(stream[1].size, ask[1].max, ask[1].kind)
       IN  IF validate_stream_result(ReadAuthority[1], outputs[1].completion, request[1], READ_OPERATION,
                                     stream[1], kept, ask[1].kind)
           THEN /\ answer' = <<[error |-> OK, content |-> stream[1], kept |-> kept]>>
                /\ phase' = "read"
           ELSE answer' = <<>> /\ phase' = "withheld"
    /\ UNCHANGED <<job, reading, planning, delivered, plan, workVars, ask, request, asked, stream>>

Next == \/ Interpret \/ PreparePlan \/ EncodeTerminal \/ EncodeCoveringFailure \/ DecodeTerminal \/ Deliver
        \/ WorkerValidates \/ ExecuteNext \/ WorkerAnswers \/ WorkerMisreports \/ Authorize
        \/ AskMember \/ DeliverRequest \/ WorkerReads \/ Release

Spec == Init /\ [][Next]_vars

--------------------------------------------------------------------------------
\* The members that really hold what they declare, from the payloads alone.
Genuine(m) ==
    LET p == job.payloads[m.payload.offset]
    IN  m.is_dir \/ /\ p.fault # "io" /\ p.crc = m.crc
                    /\ FoldLeft(LAMBDA n, c : n + c, 0, p.chunks) = m.uncomp_size
                    /\ m.method = 8 => p.fault # "invalid" /\ p.consumed = m.comp_size

TrueContent(m) ==
    IF m.is_dir THEN EmptyContent ELSE Measured(m.uncomp_size, m.crc, job.payloads[m.payload.offset].sha)

\* The files a retained path names, at most one, and their size.
Wanted(ms, e) == {k \in DOMAIN ms : ms[k].components = e.path /\ ~ms[k].is_dir}
WantedSize(ms, e) ==
    IF Wanted(ms, e) = {} THEN 0 ELSE ms[CHOOSE k \in Wanted(ms, e) : TRUE].uncomp_size

OverTransfer ==
    job.retention # <<>> /\ Max({job.retention[1].max_member, job.retention[1].max_total})
                              > MAX_TRANSFER_CONTENT_BYTES

Intact == delivered # <<>> /\ delivered = planning

\* What one side does honestly the other side understands.  A plan that
\* apply.rs made and covering.rs audited can be sent under every profile the
\* record has a tag for; the worker accepts it as sent and never meets a
\* finding its record has no room for; without a fault or a misreport the
\* supervisor's replay agrees with it, whatever the archive turns out to
\* hold; and the axes of an archive that is not planned are the ones the
\* record's own table expects (prepare_ready_plan, decode_planning_for,
\* execute_completion, authorize_execution, validate_terminal_axes).
PlanCrosses ==
    /\ phase = "unsendable" => job.profile = Zip64Profile
    /\ phase = "refused" => ~Intact
    /\ phase = "unbound" => OverTransfer \/ ~Intact
    /\ phase # "broken"
    /\ phase = "unauthorized" => ~Intact \/ faulted \/ outputs # finish_execution(plan[1], exec[1])
    /\ phase = "ended" /\ Evidence = <<>> => plan # <<>>

\* A decoder on either side ends up with the evidence of the reader or with
\* nothing: no single change to a record gets another member, range, size,
\* checksum, name or extra field past it, because the record is compared with
\* the bytes of the source again; and a covering failure is believed only if
\* the source shows it, for the cause it shows (decode_planning_for, validate_planning_against_snapshot).
AcceptedIsTheEvidence ==
    plan # <<>> /\ plan[1].record.ir # <<>> =>
        LET honest == PendingIR(Evidence[1], job.sha)
            got == plan[1].record.ir[1]
        IN  IF plan[1].record.disposition.tag = 0 THEN [got EXCEPT !.profile = honest.profile] = honest
            ELSE got # honest /\ plan[1].record.findings = <<CoveringCause(Reproduced)>>

\* What the supervisor accepts is true of the source and belongs to the plan
\* it sent: the verified members are exactly those before the first one that
\* does not hold what it declares, with their real contents; the axes are the
\* ones the in-process path reports for the same stop; retained bytes are
\* those of verified members, within both limits, and complete when all
\* requested members fit (authorize_execution, decode_completion, decode_retained).
AuthorizedIsTruth ==
    authorized # <<>> =>
        LET ms == Evidence[1].members
            stop == Min({k \in 1..(Len(ms) + 1) : k = Len(ms) + 1 \/ ~Genuine(ms[k])})
            proposal == authorized[1].proposal
            axes == IF stop > Len(ms) THEN inspect_complete
                    ELSE admitted_verification_stop(proposal.findings[1].code, FALSE)
            kept == authorized[1].retention
            limits == job.retention[1]
            fits == /\ \A i \in DOMAIN kept : \A k \in Wanted(ms, kept[i]) :
                          ms[k].uncomp_size <= limits.max_member
                    /\ FoldLeft(LAMBDA n, e : n + WantedSize(ms, e), 0, kept) <= limits.max_total
        IN  /\ Intact
            /\ \A k \in DOMAIN ms :
                  /\ (proposal.members[k].state = "Verified") = (k < stop)
                  /\ k < stop => proposal.members[k].content = TrueContent(ms[k])
            /\ <<proposal.interpretation, proposal.admission, proposal.verification>>
                  = <<axes.interpretation, axes.admission, axes.verification>>
            /\ \A i \in DOMAIN kept : kept[i].status = "Retained" =>
                  \E k \in Wanted(ms, kept[i]) : k < stop /\ kept[i].bytes = <<TrueContent(ms[k])>>
            /\ kept # <<>> => /\ RetainedBytes(kept) <= limits.max_total
                              /\ RetainedBytes(kept) <= MAX_TRANSFER_CONTENT_BYTES
                              /\ fits => \A i \in DOMAIN kept : \A k \in Wanted(ms, kept[i]) :
                                            k < stop => kept[i].status = "Retained"

\* A read through the worker gives what the in-process reader would give for
\* the same call: the real content of the named member, whole or its first
\* part, never more than asked for and never more than the ceiling; a request
\* or a stream that differs yields nothing (read_member, read_member_prefix,
\* decode_kind, validate_stream_result).
ReadsAgree ==
    answer # <<>> =>
        LET here == read_member(Capability, Snapshot, ask[1].path, ask[1].max, ask[1].kind)
            a == answer[1]
        IN  /\ a.error = OK =>
                 /\ a = here
                 /\ \E m \in Range(Evidence[1].members) :
                       m.components = ask[1].path /\ a.content = TrueContent(m)
                 /\ a.kept <= ask[1].max
                 /\ stream # <<>> => a.kept <= MAX_ISOLATED_READ_BYTES
            /\ a.error \notin {OK, "LimitExceeded"} => a.error = here.error

================================================================================
