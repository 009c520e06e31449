--------------------------- MODULE CompletionRecord ---------------------------
(****************************************************************************)
(* What the worker does with an accepted plan and what it sends back:       *)
(* executor.rs and verification.rs, the completion, retained-content and    *)
(* member-read records, and the supervisor's replay in worker_runtime.rs.   *)
(*                                                                          *)
(* A payload is what decoding the bytes at an offset yields:                *)
(*   [chunks, fault, consumed, crc, sha]                                    *)
(* the sizes that successive reads return, how the stream ends ("none",     *)
(* "io", "invalid"), the compressed units it took, and the content's CRC    *)
(* and digest.  Content is [size, crc, sha].                                *)
(****************************************************************************)
EXTENDS PlanningRecord

CONSTANTS
    MAX_TRANSFER_CONTENT_BYTES,     \* retained content of one record
    MAX_ISOLATED_READ_BYTES         \* what one isolated read may return

Measured(size, crc, sha) == [size |-> size, crc |-> crc, sha |-> sha]
EmptyContent == Measured(0, 0, "empty")

(****************************************************************************)
(* verification.rs.                                                         *)
(****************************************************************************)
Produced(p, i) == FoldLeft(LAMBDA n, c : n + c, 0, SubSeq(p.chunks, 1, i))

\* Mutant: the member cap is compared before the declared size.
ChunkFindingCapsFirst(actual, m, budget, remaining, writer) ==
    FirstOf(<< <<actual > budget.max_member, "QuotaMember">>,
               <<actual > m.uncomp_size, "QuotaDeclaredLie">>,
               <<actual > remaining, "QuotaTotal">>, <<~writer, "MaterializeIo">> >>)

\* The checks on one chunk, in order, before it is written.
ChunkFinding(actual, m, budget, remaining, writer) ==
    FirstOf(<< <<actual > MaxU64, "QuotaOverflow">>,
               <<actual > m.uncomp_size, "QuotaDeclaredLie">>,
               <<actual > budget.max_member, "QuotaMember">>, <<actual > remaining, "QuotaTotal">>,
               <<budget.max_ratio # <<>> /\ ZipRatioExceeds(actual, m.comp_size, budget.max_ratio[1]),
                 "QuotaRatio">>,
               <<~writer, "MaterializeIo">> >>)

\* Decoding, then the stream's end, then size and CRC.
verify_payload(p, m, budget, remaining, writer) ==
    LET bad == {i \in DOMAIN p.chunks :
                    ChunkFinding(Produced(p, i), m, budget, remaining, writer) # OK}
        size == Produced(p, Len(p.chunks))
    IN  [finding |->
            FirstOf(<< <<m.method \notin {0, 8}, "MethodUnsupported">>,
                       <<bad # {}, IF bad = {} THEN OK
                                   ELSE ChunkFinding(Produced(p, Min(bad)), m, budget, remaining,
                                                     writer)>>,
                       <<p.fault = "io", "SourceIo">>,
                       <<m.method = 8 /\ p.fault = "invalid", "CodecDeflateInvalidStream">>,
                       <<m.method = 8 /\ p.consumed # m.comp_size, "CodecDeflateTrailingInput">>,
                       <<size # m.uncomp_size, "QuotaDeclaredLie">>,
                       <<p.crc # m.crc, "CrcMismatch">> >>),
         content |-> Measured(size, p.crc, p.sha)]

(****************************************************************************)
(* verified.rs: which members are kept in memory.                           *)
(****************************************************************************)
\* Building a request: canonical paths only, repeated ones count once.
add_path(paths, path) ==
    IF path \in paths THEN [paths |-> paths, error |-> OK]
    ELSE IF Cardinality(paths) >= MAX_RETENTION_PATHS THEN [paths |-> paths, error |-> "TooManyPaths"]
    ELSE IF ~validate_jailed_name(path) THEN [paths |-> paths, error |-> "NonCanonicalPath"]
    ELSE [paths |-> paths \cup {path}, error |-> OK]

AddPaths(paths) == FoldLeft(LAMBDA s, p : add_path(s, p).paths, {}, paths)

MemberAt(members, path) == {i \in DOMAIN members : members[i].components = path}

\* What becomes of one requested path, given what is charged already.
SelectStatus(retention, members, total, path) ==
    LET hit == MemberAt(members, path)
        m == members[CHOOSE i \in hit : TRUE]
    IN  IF hit = {} THEN "NotFound"
        ELSE IF m.is_dir THEN "NotFile"
        ELSE IF m.uncomp_size > retention[1].max_member THEN "MemberLimit"
        ELSE IF total + m.uncomp_size > retention[1].max_total THEN "TotalLimit"
        ELSE "Selected"

\* In path order, each selected member is charged to the total.
SelectPath(retention, members, st, path) ==
    LET status == SelectStatus(retention, members, st.total, path)
        m == members[CHOOSE i \in MemberAt(members, path) : TRUE]
    IN  [total |-> st.total + (IF status = "Selected" THEN m.uncomp_size ELSE 0),
         entries |-> Append(st.entries, [path |-> path, status |-> status, bytes |-> <<>>])]

RetentionPlan(retention, members) ==
    IF retention = <<>> THEN <<>>
    ELSE FoldLeft(LAMBDA st, path : SelectPath(retention, members, st, path),
                  [total |-> 0, entries |-> <<>>], retention[1].paths).entries

SetEntry(entries, path, status, bytes) ==
    [i \in DOMAIN entries |->
        IF entries[i].path = path /\ entries[i].status = "Selected"
        THEN [entries[i] EXCEPT !.status = status, !.bytes = bytes] ELSE entries[i]]

\* A selected member whose buffer cannot be had is dropped, not the run.
begin_capture(entries, path, allocates) ==
    IF allocates THEN entries ELSE SetEntry(entries, path, "AllocationFailed", <<>>)

finish_capture(entries, path, content) == SetEntry(entries, path, "Retained", <<content>>)

(****************************************************************************)
(* executor.rs, one member per step.                                        *)
(****************************************************************************)
\* Environment faults of one member: the stage refuses, a write fails, the
\* source cannot be read, a capture buffer cannot be had.
StageFaults == {"MaterializeIo", "MaterializeUnsafeComponent", "write"}
Faults == StageFaults \cup {"source", "allocation"}

\* Retention beyond one transfer is refused before anything is executed.
BindExecution(plan, snapshot, effect) ==
    LET b == plan.record.binding
    IN  /\ plan.record.disposition.tag = 0 /\ plan.record.ir # <<>>
        /\ b.effect = effect /\ (effect = Materialize => b.target # <<>>)
        /\ b.retention # <<>> => /\ b.retention[1].max_member <= MAX_TRANSFER_CONTENT_BYTES
                                 /\ b.retention[1].max_total <= MAX_TRANSFER_CONTENT_BYTES
        /\ validate_snapshot_binding(snapshot, b)

NewExecution(plan) ==
    [members |-> <<>>, remaining |-> plan.record.binding.budget.max_total,
     retention |-> RetentionPlan(plan.record.binding.retention, plan.record.ir[1].members),
     finding |-> OK, broken |-> FALSE]

PlannedMembers(plan) == plan.record.ir[1].members

inspect_failure_reachable(m, code) ==
    /\ ~m.is_dir
    /\ \/ code \in {"SourceIo", "QuotaDeclaredLie", "CrcMismatch"}
       \/ m.method = 8 /\ code \in {"CodecDeflateInvalidStream", "CodecDeflateTrailingInput"}

execution_failure_reachable(effect, m, code) ==
    \/ effect = Materialize /\ code \in {"MaterializeIo", "MaterializeUnsafeComponent"}
    \/ inspect_failure_reachable(m, code)

Verified(content) == [state |-> "Verified", content |-> content, cause |-> OK]
Failed(code) == [state |-> "Failed", content |-> EmptyContent, cause |-> code]
Pending == [state |-> "Pending", content |-> EmptyContent, cause |-> OK]

Execution(x) == x.finding = OK /\ ~x.broken
ExecutionDone(plan, x) == ~Execution(x) \/ Len(x.members) = Len(PlannedMembers(plan))

\* Without a stage the member is only read.
ExecuteFile(plan, m, payload, stage, fault, x) ==
    LET budget == plan.record.binding.budget
        p == IF fault = "source" THEN [payload EXCEPT !.chunks = <<>>, !.fault = "io"] ELSE payload
        created == ~stage \/ fault \notin {"MaterializeIo", "MaterializeUnsafeComponent"}
        v == verify_payload(p, m, budget, x.remaining, ~stage \/ fault # "write")
        code == IF created THEN v.finding ELSE fault
        entries == begin_capture(x.retention, m.components, fault # "allocation")
    IN  IF code # OK
        THEN IF execution_failure_reachable(plan.record.binding.effect, m, code)
             THEN [x EXCEPT !.finding = code, !.retention = entries]
             ELSE [x EXCEPT !.broken = TRUE]
        ELSE IF v.content.size > x.remaining THEN [x EXCEPT !.broken = TRUE]
        ELSE [x EXCEPT !.members = Append(@, Verified(v.content)),
                       !.remaining = @ - v.content.size,
                       !.retention = finish_capture(entries, m.components, v.content)]

ExecuteMember(plan, snapshot, stage, fault, x) ==
    LET m == PlannedMembers(plan)[Len(x.members) + 1]
    IN  IF m.is_dir
        THEN IF stage /\ fault \in {"MaterializeIo", "MaterializeUnsafeComponent"}
             THEN [x EXCEPT !.finding = fault]
             ELSE [x EXCEPT !.members = Append(@, Verified(EmptyContent))]
        ELSE ExecuteFile(plan, m, snapshot.payloads[m.payload.offset], stage, fault, x)

(****************************************************************************)
(* The completion record.                                                   *)
(****************************************************************************)
completion_finding(code, effect) ==
    \/ code \in {"SourceIo", "QuotaDeclaredLie", "CodecDeflateInvalidStream",
                 "CodecDeflateTrailingInput", "CrcMismatch"}
    \/ effect = Materialize /\ code \in {"MaterializeIo", "MaterializeUnsafeComponent"}

completion_cause_reachable(effect, m, code) == execution_failure_reachable(effect, m, code)

completion_stop_axes(cause) ==
    CASE cause = "SourceIo" -> <<"Indeterminate", "Admitted">>
      [] cause \in {"CodecDeflateInvalidStream", "CodecDeflateTrailingInput", "ZipDiffC4Offset"}
            -> <<"Malformed", "NotEvaluated">>
      [] cause \in {"MaterializeIo", "MaterializeUnsafeComponent", "MaterializeCommit",
                    "MaterializeExists"} -> <<"Interpreted", "Admitted">>
      [] OTHER -> <<"Interpreted", "Denied">>

\* A verified prefix, at most one failed member, pending members after it.
Frontier(members) == Min({i \in 1..(Len(members) + 1) :
                            i = Len(members) + 1 \/ members[i].state # "Verified"})
ActualTotal(members) ==
    FoldLeft(LAMBDA n, s : n + (IF s.state = "Verified" THEN s.content.size ELSE 0), 0, members)

CompletionMembersValid(members, plan) ==
    LET f == Frontier(members)
        planned == PlannedMembers(plan)
    IN  /\ Len(members) = Len(planned)
        /\ \A i \in 1..(f - 1) :
              /\ members[i].content.size = planned[i].uncomp_size
              /\ members[i].content.crc = planned[i].crc
              /\ planned[i].is_dir => members[i].content = EmptyContent
        /\ \A i \in (f + 1)..Len(members) : members[i].state = "Pending"
        /\ ActualTotal(members) <= plan.record.binding.budget.max_total

CompletionFindingsValid(r, plan) ==
    LET effect == plan.record.binding.effect
    IN  /\ Cardinality(Errors(r.findings)) = IF r.disposition.tag = 0 THEN 0 ELSE 1
        /\ \A i \in DOMAIN r.findings : completion_finding(r.findings[i].code, effect)

\* Complete means no member is left; a stop names its member, its cause and
\* both counts.
DispositionFits(r, plan) ==
    LET f == Frontier(r.members)
    IN  IF r.disposition.tag = 0 THEN f = Len(r.members) + 1
        ELSE /\ f <= Len(r.members) /\ r.members[f].state = "Failed"
             /\ r.findings[first_error_index(r.findings)].code = r.members[f].cause
             /\ completion_cause_reachable(plan.record.binding.effect, PlannedMembers(plan)[f],
                                           r.members[f].cause)
             /\ r.disposition.verified = f - 1
             /\ r.disposition.pending = Len(r.members) - (f - 1)

validate_completion(r, plan) ==
    LET b == plan.record.binding
    IN  /\ plan.record.disposition.tag = 0
        /\ <<r.operation, r.request_id, r.plan_id>> = <<b.operation, plan.request_id, plan.plan_id>>
        /\ CompletionFindingsValid(r, plan)
        /\ CompletionMembersValid(r.members, plan)
        /\ DispositionFits(r, plan)

\* The members after the failed one stay pending; the failed one counts as
\* pending too.
CompletionRecordOf(plan, x) ==
    LET n == Len(PlannedMembers(plan))
        k == Len(x.members)
        stopped == x.finding # OK
    IN  [operation |-> plan.record.binding.operation, request_id |-> plan.request_id,
         plan_id |-> plan.plan_id,
         disposition |-> IF stopped THEN [tag |-> 1, verified |-> k, pending |-> n - k]
                         ELSE [tag |-> 0, verified |-> 0, pending |-> 0],
         members |-> IF stopped THEN x.members \o <<Failed(x.finding)>> \o [i \in 1..(n - k - 1) |-> Pending]
                     ELSE x.members,
         findings |-> IF stopped THEN <<Finding(x.finding)>> ELSE <<>>]

encode_completion(r, plan) ==
    IF validate_completion(r, plan) THEN <<Frame("completion", r)>> ELSE <<>>

\* The planned members again, with what was measured of each.
materialize_completion(planned, states) ==
    [i \in DOMAIN planned |-> [x \in DOMAIN planned[i] \cup DOMAIN states[i] |->
                                IF x \in DOMAIN states[i] THEN states[i][x] ELSE planned[i][x]]]

\* <<>>, or the axes and the measured members a completion stands for.
decode_completion(input, plan) ==
    LET r == input.body
        accepted == /\ FrameIsExact(input, "completion") /\ r.disposition.tag \in {0, 1}
                    /\ validate_completion(r, plan)
        stop == completion_stop_axes(r.members[Frontier(r.members)].cause)
        axes == IF r.disposition.tag = 0 THEN <<"Interpreted", "Admitted">> ELSE stop
    IN  IF ~accepted THEN <<>>
        ELSE <<[interpretation |-> axes[1], admission |-> axes[2],
                verification |-> IF r.disposition.tag = 0 THEN "Complete" ELSE "Partial",
                members |-> materialize_completion(PlannedMembers(plan), r.members),
                findings |-> r.findings]>>

(****************************************************************************)
(* Retained content.                                                        *)
(****************************************************************************)
\* A member selected but never reached is reported as a mismatch.
EntryStatus(entry) == IF entry.status = "Selected" THEN "IntegrityMismatch" ELSE entry.status

encode_retained(plan, completion, entries) ==
    Frame("retained",
          [operation |-> plan.record.binding.operation, request_id |-> plan.request_id,
           plan_id |-> plan.plan_id, completion |-> completion,
           entries |-> [i \in DOMAIN entries |-> [entries[i] EXCEPT !.status = EntryStatus(entries[i])]]])

\* Only a selected entry has a choice of status, and bytes only when kept.
validate_entry(entry, expected, plan, members) ==
    LET hit == MemberAt(PlannedMembers(plan), entry.path)
        i == CHOOSE k \in hit : TRUE
    IN  /\ entry.path = expected.path
        /\ IF expected.status = "Selected"
           THEN entry.status \in {"Retained", "PlatformLimit", "AllocationFailed", "IntegrityMismatch"}
           ELSE entry.status = expected.status
        /\ IF entry.status # "Retained" THEN entry.bytes = <<>>
           ELSE /\ entry.bytes # <<>> /\ hit # {} /\ ~PlannedMembers(plan)[i].is_dir
                /\ members[i].state = "Verified" /\ entry.bytes[1] = members[i].content

RetainedBytes(entries) ==
    FoldLeft(LAMBDA n, e : n + (IF e.status = "Retained" THEN e.bytes[1].size ELSE 0), 0, entries)

decode_retained(plan, completion, input) ==
    LET proposal == decode_completion(completion, plan)
        expected == RetentionPlan(plan.record.binding.retention, PlannedMembers(plan))
        r == input.body
        limit == IF plan.record.binding.retention = <<>> THEN 0
                 ELSE plan.record.binding.retention[1].max_total
        accepted ==
            /\ proposal # <<>> /\ FrameIsExact(input, "retained")
            /\ <<r.operation, r.request_id, r.plan_id>>
                  = <<plan.record.binding.operation, plan.request_id, plan.plan_id>>
            /\ r.completion = completion
            /\ Len(r.entries) = Len(expected)
            /\ \A i \in DOMAIN r.entries :
                  validate_entry(r.entries[i], expected[i], plan, proposal[1].members)
            /\ RetainedBytes(r.entries) <= limit
            /\ RetainedBytes(r.entries) <= MAX_TRANSFER_CONTENT_BYTES
    IN  IF accepted THEN <<r.entries>> ELSE <<>>

\* What an execution hands over; <<>> when a record cannot be formed.
finish_execution(plan, x) ==
    LET completion == encode_completion(CompletionRecordOf(plan, x), plan)
    IN  IF x.broken \/ completion = <<>> THEN <<>>
        ELSE <<[completion |-> completion[1],
                retained |-> encode_retained(plan, completion[1], x.retention)]>>

(****************************************************************************)
(* worker_runtime.rs: the supervisor's own reading.                         *)
(****************************************************************************)
\* Every member again, without a stage and without faults.
execute_completion(plan, snapshot) ==
    FoldLeft(LAMBDA x, i : IF Execution(x) THEN ExecuteMember(plan, snapshot, FALSE, "none", x) ELSE x,
             NewExecution(plan), PlannedMembers(plan))

\* Mutant: the worker's completion is decoded instead of compared.
AuthorizeTrustsWorker(snapshot, operation, input, completion, retained, effect) ==
    LET plans == validate_operation(snapshot, operation, input, effect)
        plan == plans[1]
    IN  IF plans = <<>> \/ decode_retained(plan, completion, retained) = <<>> THEN <<>>
        ELSE <<[proposal |-> decode_completion(completion, plan)[1],
                retention |-> decode_retained(plan, completion, retained)[1]]>>

\* Both outputs equal the replayed ones, and only then are they decoded.
AuthorizeReplayed(replayed, completion, retained, proposal, entries) ==
    IF /\ replayed # <<>> /\ replayed[1].completion = completion
       /\ replayed[1].retained = retained
       /\ proposal # <<>> /\ entries # <<>>
    THEN <<[proposal |-> proposal[1], retention |-> entries[1]]>> ELSE <<>>

AuthorizePlan(plans, snapshot, completion, retained, effect) ==
    IF plans = <<>> \/ ~BindExecution(plans[1], snapshot, effect) THEN <<>>
    ELSE AuthorizeReplayed(finish_execution(plans[1], execute_completion(plans[1], snapshot)),
                           completion, retained, decode_completion(completion, plans[1]),
                           decode_retained(plans[1], completion, retained))

authorize_execution(snapshot, operation, input, completion, retained, effect) ==
    AuthorizePlan(validate_operation(snapshot, operation, input, effect), snapshot, completion,
                  retained, effect)

(****************************************************************************)
(* Member reads: member_read.rs.                                            *)
(****************************************************************************)
ReadKinds == {"Full", "Prefix"}

retained_bytes(size, max, kind) == IF kind = "Full" THEN size ELSE Min({size, max})

\* The member a path names, verified and within the limits of a full read.
selected_member(plan, members, path, max, kind) ==
    {i \in MemberAt(PlannedMembers(plan), path) :
        /\ ~PlannedMembers(plan)[i].is_dir /\ members[i].state = "Verified"
        /\ kind = "Full" => /\ members[i].content.size <= max
                            /\ members[i].content.size <= MAX_ISOLATED_READ_BYTES}

decode_kind(plan, completion, input, read, kind) ==
    LET proposal == decode_completion(completion, plan)
        r == input.body
        hit == selected_member(plan, proposal[1].members, r.path, r.max, kind)
        i == CHOOSE k \in hit : TRUE
        accepted ==
            /\ proposal # <<>> /\ FrameIsExact(input, kind)
            /\ r.read # 0 /\ r.read = read
            /\ <<r.operation, r.request_id, r.plan_id>>
                  = <<plan.record.binding.operation, plan.request_id, plan.plan_id>>
            /\ r.completion = completion /\ r.reserved = 0
            /\ kind = "Full" => r.max <= MAX_ISOLATED_READ_BYTES
            /\ validate_jailed_name(r.path)
            /\ hit # {}
            /\ retained_bytes(proposal[1].members[i].content.size, r.max, kind)
                  <= MAX_ISOLATED_READ_BYTES
            /\ r.index = i
    IN  IF accepted THEN <<[path |-> r.path, max |-> r.max, kind |-> kind, index |-> i,
                            content |-> proposal[1].members[i].content]>>
        ELSE <<>>

\* A request is only sent if it would be accepted.
encode_kind(plan, completion, read, path, max, kind) ==
    LET proposal == decode_completion(completion, plan)
        hit == selected_member(plan, proposal[1].members, path, max, kind)
        input == Frame(kind, [read |-> read, operation |-> plan.record.binding.operation,
                              request_id |-> plan.request_id, plan_id |-> plan.plan_id,
                              completion |-> completion, index |-> CHOOSE k \in hit : TRUE,
                              reserved |-> 0, max |-> max, path |-> path])
    IN  IF /\ read # 0 /\ proposal # <<>> /\ hit # {}
           /\ decode_kind(plan, completion, input, read, kind) # <<>>
        THEN <<input>> ELSE <<>>

\* The plan of a read is validated again against the source.
bind_member_read_source(snapshot, operation, planning) ==
    LET bound == decode_planning_binding(planning)
    IN  IF /\ bound # <<>> /\ bound[1].operation = operation
           /\ bound[1].source_len = snapshot.len /\ snapshot.len <= bound[1].budget.max_archive
        THEN decode_planning_for(planning, ExpectExact(bound[1]), snapshot) ELSE <<>>

\* The worker decodes the selected payload alone and compares it with the
\* authorized evidence.
execute_into(plan, snapshot, request) ==
    LET m == PlannedMembers(plan)[request.index]
        v == verify_payload(snapshot.payloads[m.payload.offset], m, plan.record.binding.budget,
                            request.content.size, TRUE)
    IN  IF /\ m.components = request.path /\ v.finding = OK /\ v.content = request.content
        THEN <<v.content>> ELSE <<>>

\* Mutant: only the length of the stream is compared.
StreamChecksSizeOnly(plan, completion, input, read, streamed, kept, kind) ==
    LET requests == decode_kind(plan, completion, input, read, kind)
    IN  requests # <<>> /\ streamed.size = requests[1].content.size

\* The supervisor measures the whole stream and keeps the requested part.
validate_stream_result(plan, completion, input, read, streamed, kept, kind) ==
    LET requests == decode_kind(plan, completion, input, read, kind)
    IN  /\ requests # <<>>
        /\ streamed = requests[1].content
        /\ kept = retained_bytes(requests[1].content.size, requests[1].max, kind)

(****************************************************************************)
(* The capability's own reads: verified.rs.                                 *)
(****************************************************************************)
verified_regular_member(archive, path) ==
    LET hit == MemberAt(archive.planned, path)
        i == CHOOSE k \in hit : TRUE
    IN  [error |-> FirstOf(<< <<hit = {}, "NotFound">>,
                              <<hit # {} /\ archive.planned[i].is_dir, "NotFile">>,
                              <<hit # {} /\ archive.members[i].state # "Verified",
                                "IntegrityMismatch">> >>),
         index |-> IF hit = {} THEN 0 ELSE i]

RetainedAt(archive, path) ==
    {i \in DOMAIN archive.retention :
        archive.retention[i].path = path /\ archive.retention[i].status = "Retained"}

member_read_error(finding) == IF finding = "SourceIo" THEN "SourceIo" ELSE "IntegrityMismatch"

\* A retained copy answers at once; otherwise the payload is decoded again.
read_member(archive, snapshot, path, max, kind) ==
    LET found == verified_regular_member(archive, path)
        m == archive.planned[found.index]
        content == archive.members[found.index].content
        kept == retained_bytes(content.size, max, kind)
        v == verify_payload(snapshot.payloads[m.payload.offset], m, archive.budget, content.size, TRUE)
        Answer(error, c) == [error |-> error, content |-> c, kept |-> kept]
        Refusal(error) == [error |-> error, content |-> EmptyContent, kept |-> 0]
    IN  IF found.error # OK THEN Refusal(found.error)
        ELSE IF kind = "Full" /\ content.size > max THEN Refusal("LimitExceeded")
        ELSE IF RetainedAt(archive, path) # {}
        THEN LET e == archive.retention[CHOOSE i \in RetainedAt(archive, path) : TRUE]
             IN  IF e.bytes[1].size # content.size THEN Refusal("IntegrityMismatch")
                 ELSE Answer(OK, e.bytes[1])
        ELSE IF v.finding # OK THEN Refusal(member_read_error(v.finding))
        ELSE IF v.content # content THEN Refusal("IntegrityMismatch")
        ELSE Answer(OK, v.content)

================================================================================
