-------------------------- MODULE SqlJobQueueEdits --------------------------
(***************************************************************************)
(* The SQL job store while an operator edits jobs in it, with the job       *)
(* manager's UpdateJobMetadataAndParameters: one UPDATE of the row, if it   *)
(* has the status that was asked for, and then one UPDATE per parameter.    *)
(* Which jobs are edited, and how far, is followed in sets of pieces; of    *)
(* the columns only the status matters to the nodes.                        *)
(***************************************************************************)
EXTENDS SqlJobQueue

CONSTANTS
    NoStatus,        \* no status required, or none set
    OldStatuses,     \* the values of OldStatusIfRequired
    NewStatuses,     \* the statuses that are set
    RowPiece,        \* the piece of an edit that is the row itself
    Ordinals,        \* per job: the ordinals of its parameters
    EditedOrdinals,  \* the ordinals commands may name
    MaxEdits         \* bound: the number of calls

ASSUME EditAssumption ==
    /\ NoStatus \notin JobStates
    /\ OldStatuses \subseteq JobStates \cup {NoStatus}
    /\ NewStatuses \subseteq JobStates \cup {NoStatus}
    /\ Ordinals \in [Jobs -> SUBSET Nat]
    /\ EditedOrdinals \subseteq Nat
    /\ RowPiece \notin EditedOrdinals
    /\ MaxEdits \in Nat

VARIABLES
    edit,      \* the call under way: what it has still to do
    edits,     \* how many calls there have been
    edited,    \* history: the parameters a job's last call has written
    promised,  \* history: what a call that made a job New and returned true was to write
    disturbed  \* history: jobs whose lease was not kept, see Disturbs

editor == <<edit, edits, edited, promised>>

NoEdit == [step |-> "idle", todo |-> {}]

\* SetJobMetadata and SetJobParameters; a status is part of the former.  Only
\* parameters with something to set are pieces: the others have no statement.
Commands ==
    {c \in [job : Jobs, oldStatus : OldStatuses, newStatus : NewStatuses,
            pieces : SUBSET ({RowPiece} \cup EditedOrdinals)] :
        c.newStatus # NoStatus => RowPiece \in c.pieces}

ParamPieces(c) == c.pieces \ {RowPiece}

\* Mutant: the required status is not looked at.
MatchesAnyStatus(c) == row[c.job].status # "Absent"

\* The WHERE of the row's UPDATE, or of Any when there is nothing to set.
Matches(c) ==
    /\ row[c.job].status # "Absent"
    /\ c.oldStatus = NoStatus \/ row[c.job].status = c.oldStatus

\* The parameter's UPDATE finds its row.
ParamExists(j, o) == "params" \in child[j] /\ o \in Ordinals[j]

SetStatus(c) ==
    row' = IF c.newStatus = NoStatus THEN row
           ELSE [row EXCEPT ![c.job].status = c.newStatus]

Store == <<now, child, adder, fetch, held, purge, succeeded>>

----------------------------------------------------------------------------
(* UpdateJobMetadataAndParameters, statement by statement *)

BeginEdit(c) ==
    /\ edit = NoEdit
    /\ edits < MaxEdits
    /\ edit' = [step |-> "row", todo |-> ParamPieces(c), command |-> c]
    /\ edits' = edits + 1
    /\ edited' = [edited EXCEPT ![c.job] = {}]
    /\ promised' = [promised EXCEPT ![c.job] = {}]
    /\ UNCHANGED <<Store, row>>

\* No parameter is touched when the row did not match.
EditRow ==
    /\ edit.step = "row"
    /\ IF Matches(edit.command)
         THEN /\ SetStatus(edit.command)
              /\ edit' = IF edit.todo = {} THEN NoEdit ELSE [edit EXCEPT !.step = "params"]
         ELSE edit' = NoEdit /\ UNCHANGED row
    /\ UNCHANGED <<Store, edits, edited, promised>>

\* ableToUpdateJob is returned when the last parameter is written.
ReturnTrue(c) ==
    promised' = [promised EXCEPT ![c.job] =
                   IF c.newStatus = "New" THEN ParamPieces(c) ELSE {}]

\* Mutant: updatedRows is not looked at.
EditParamUnchecked(o) ==
    /\ edit.step = "params"
    /\ o \in edit.todo
    /\ edited' = IF ParamExists(edit.command.job, o)
                   THEN [edited EXCEPT ![edit.command.job] = @ \cup {o}] ELSE edited
    /\ IF edit.todo = {o} THEN edit' = NoEdit /\ ReturnTrue(edit.command)
                          ELSE edit' = [edit EXCEPT !.todo = @ \ {o}] /\ UNCHANGED promised
    /\ UNCHANGED <<Store, row, edits>>

\* The UPDATE of one parameter.  When it finds no row the call returns false,
\* and the statements before it stay as they are.
EditParam(o) ==
    /\ edit.step = "params"
    /\ o \in edit.todo
    /\ IF ParamExists(edit.command.job, o)
         THEN /\ edited' = [edited EXCEPT ![edit.command.job] = @ \cup {o}]
              /\ IF edit.todo = {o}
                   THEN edit' = NoEdit /\ ReturnTrue(edit.command)
                   ELSE edit' = [edit EXCEPT !.todo = @ \ {o}] /\ UNCHANGED promised
         ELSE edit' = NoEdit /\ UNCHANGED <<edited, promised>>
    /\ UNCHANGED <<Store, row, edits>>

----------------------------------------------------------------------------

EditInit ==
    /\ Init
    /\ edit = NoEdit
    /\ edits = 0
    /\ edited = [j \in Jobs |-> {}]
    /\ promised = [j \in Jobs |-> {}]
    /\ disturbed = {}

EditStep ==
    \/ \E c \in Commands : BeginEdit(c)
    \/ EditRow
    \/ \E o \in EditedOrdinals : EditParam(o)

StoreStep == Next /\ UNCHANGED editor

BeingAdded(j) == adder[j] \notin {"added", "abandoned"}

HeldAs(j, stage) == \E n \in Nodes : \E e \in held[n] : e.job = j /\ e.stage = stage

\* With one of these a status is set whatever the job is doing.
Unguarded(c) == c.oldStatus \in {NoStatus, "InProgress", "Inserting"}

\* An edit changes the status of a job that runs, or is being added.
TakesAway(j) ==
    /\ edit.step = "row" /\ Unguarded(edit.command)
    /\ row'[j].status # row[j].status
    /\ BeingAdded(j) \/ HeldAs(j, "running")

\* The job's InProgress write throws.
LosesInProgress(j) == \E n \in Nodes : \E e \in held[n] : e.job = j /\ DropInProgress(n, e)

\* The job's lease is over and its InProgress write still to come.
IsLate(j) ==
    \E n \in Nodes : \E e \in held[n] :
        e.job = j /\ e.stage = "fetched" /\ e.at + LeaseTimeout < now

Disturbs(j) == TakesAway(j) \/ LosesInProgress(j) \/ IsLate(j)'

EditNext ==
    /\ EditStep \/ StoreStep
    /\ disturbed' = disturbed \cup {j \in Jobs : Disturbs(j)}

EditSpec == EditInit /\ [][EditNext]_<<vars, editor, disturbed>>

----------------------------------------------------------------------------
(* Properties *)

\* A job goes to a second node only if its own InProgress write was lost or
\* late, or if its own status was set, while it ran or was being added, by an
\* edit that did not require another one.  Every other edit, of whatever status
\* to whatever status and however its statements fall between the nodes', is
\* harmless: of a job that is claimed or being claimed (its lease stays), of one
\* that a dead node left InProgress, and of any other job.
EditsKeepExclusiveHolder ==
    \A n, m \in Nodes : \A d \in held[n], e \in held[m] :
        d.job = e.job /\ d.job \notin disturbed => n = m /\ d = e

\* When an edit that makes a job New and changes its arguments has returned true,
\* the job is handed out with those arguments, and with none of its parameters
\* purged meanwhile: the row is written first, which keeps a purge of ended
\* jobs off the parameters, or has the edit find them gone and return false.
RequeuedIsWhole ==
    [][\A n \in Nodes : \A e \in PickedUp(n) :
           promised[e.job] # {} /\ e.job \notin disturbed =>
               promised[e.job] \subseteq edited[e.job] /\ "params" \in child[e.job]
      ]_<<vars, editor>>

=============================================================================
