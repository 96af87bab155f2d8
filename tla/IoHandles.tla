----------------------------- MODULE IoHandles -----------------------------
(***************************************************************************)
(* The management of I/O handles                                           *)
(* (src/measurement/io/scorep_io_management.c) with the wrappers of the    *)
(* POSIX and ISO C functions that create, duplicate, use and destroy them. *)
(*                                                                         *)
(* A hash table per paradigm holds the handle of each open descriptor or   *)
(* stream; a stack per location holds the handles of the calls that are    *)
(* running.  Wrappers nest: the C library opens a stream, and may          *)
(* implement creat, by a call of open that is wrapped as well.             *)
(***************************************************************************)
EXTENDS Integers, SequencesExt

CONSTANTS
  IoLocations,        (* threads of the program                            *)
  Descriptors,        (* of open files, which the system hands out from    *)
                      (* the lowest                                        *)
  Streams, Files,     (* numbers that stand for FILE*; names of files      *)
  IoSetups            (* threads, functions called, what may happen        *)
                      (* (features), the descriptors the system has, and a *)
                      (* bound on the calls                                *)

IoFeatures == {"collision",     (* all values are in one bucket            *)
               "wrapped open",  (* the library calls the wrapper of open   *)
               "close fails",   (* and fclose                               *)
               "fdopen fails", "freopen fails"}

ASSUME IoAssumption ==
  /\ Descriptors \cup Streams \subseteq Nat \ {0}
  /\ \A s \in IoSetups : /\ s.locations \subseteq IoLocations /\ s.io_calls \in Nat
                         /\ s.descriptors \subseteq Descriptors
                         /\ s.features \subseteq IoFeatures

VARIABLES
  io_setup,
  open_files,        (* the file a descriptor stands for, "" if it is free *)
  stream_fd,         (* the descriptor of a stream, 0 if it is not open    *)
  handles,           (* the I/O handle definitions made: SCOREP_IoHandleDef*)
                     (* and its io_handle_payload; a handle is its index   *)
  table,             (* of each paradigm: buckets, each a list of handles  *)
  handle_stack,      (* io_mgmt_location_data                              *)
  wrapper,           (* the stack of the wrappers each thread is in        *)
  active,            (* handles created and not destroyed in the trace     *)
  strays,            (* handles an event was written for while inactive,   *)
                     (* or that were created twice                         *)
  aborted,           (* a UTILS_BUG_ON struck                              *)
  io_calls

programVars == <<io_setup, open_files, stream_fd>>
ioVars == <<programVars, handles, table, handle_stack, wrapper, active, strays,
            aborted, io_calls>>

INVALID == 0     (* SCOREP_INVALID_IO_HANDLE *)

-----------------------------------------------------------------------------
(* The table.  S stands for what a wrapper changes: the definitions, the   *)
(* table, the thread's stack, and the events.                              *)

Bucket(value) == IF "collision" \in io_setup.features THEN 1 ELSE value

(* get_handle_ref: the reference is to the field that holds the handle: of *)
(* the bucket (0), or the `next' of another handle.                        *)
Reference(S, paradigm, value) ==
  LET bucket == S.table[paradigm][Bucket(value)]
      found == {i \in 1 .. Len(bucket) : S.handles[bucket[i]].value = value}
      before == IF found = {} THEN Len(bucket) ELSE Min(found) - 1
  IN  IF before = 0 THEN 0 ELSE bucket[before]

(* What a reference refers to; a handle not in the table has no `next'.    *)
Referred(S, paradigm, value, reference) ==
  LET bucket == S.table[paradigm][Bucket(value)]
      at == SelectInSeq(bucket, LAMBDA h : h = reference)
  IN  IF (reference # 0 /\ at = 0) \/ at = Len(bucket) THEN INVALID ELSE bucket[at + 1]

FindHandle(S, paradigm, value) == Referred(S, paradigm, value, Reference(S, paradigm, value))

(* SCOREP_IoMgmt_RemoveHandle *)
RemoveHandle(S, paradigm, value) ==
  [S EXCEPT !.table[paradigm][Bucket(value)] =
     SelectSeq(@, LAMBDA h : h # FindHandle(S, paradigm, value))]

(* insert_handle drops a duplicate. *)
insert_handle(S, paradigm, handle) ==
  LET value == S.handles[handle].value
  IN  [RemoveHandle(S, paradigm, value) EXCEPT
         !.table[paradigm][Bucket(value)] = <<handle>> \o @]

-----------------------------------------------------------------------------
(* The stack of the handles *)

StackEntry(handle, in_creation) ==
  [handle |-> handle, in_creation |-> in_creation, recursive_creation_counter |-> 0]
PushEntry(S, handle, in_creation) ==
  [S EXCEPT !.stack = <<StackEntry(handle, in_creation)>> \o @]
PopEntry(S) == [S EXCEPT !.stack = Tail(@)]
Abort(S) == [S EXCEPT !.aborted = TRUE]

InCreation(S) == S.stack # <<>> /\ S.stack[1].in_creation
Nested(S) == InCreation(S) /\ S.stack[1].recursive_creation_counter > 0

(* SCOREP_IoMgmt_BeginHandleCreation and -Duplication; an empty name of a  *)
(* file is SCOREP_INVALID_IO_FILE.                                         *)
BeginHandle(S, paradigm, file) ==
  IF InCreation(S) /\ S.handles[S.stack[1].handle].paradigm = paradigm
  THEN [S EXCEPT !.stack[1].recursive_creation_counter = @ + 1]
  ELSE PushEntry([S EXCEPT !.handles = Append(@, [paradigm |-> paradigm, value |-> 0, file |-> file])],
            Len(S.handles) + 1, TRUE)
BeginCreation(S, paradigm) == BeginHandle(S, paradigm, "")
BeginDuplication(S, paradigm, source) ==
  IF source = INVALID THEN Abort(S) ELSE BeginHandle(S, paradigm, S.handles[source].file)

(* SCOREP_IoMgmt_CompleteHandleCreation and -Duplication, and the event    *)
(* the wrapper writes for a handle it gets.                                *)
EventOf(S, handle) ==
  [S EXCEPT !.strays = IF handle \in S.active THEN @ ELSE @ \cup {handle}]
CreateEvent(S, handle) ==
  [S EXCEPT !.active = @ \cup {handle},
            !.strays = IF handle \in S.active THEN @ \cup {handle} ELSE @]
DestroyEvent(S, handle) == [EventOf(S, handle) EXCEPT !.active = @ \ {handle}]

(* (mutant: the completions within a creation are not counted)             *)
CompleteHandleIgnoresNesting(S, paradigm, file, value) ==
  IF S.stack = <<>> THEN Abort(S)
  ELSE LET handle == S.stack[1].handle
           named == [S.handles[handle] EXCEPT !.value = value,
                                              !.file = IF file = "" THEN @ ELSE file]
       IN  CreateEvent(insert_handle([PopEntry(S) EXCEPT !.handles[handle] = named], paradigm, handle),
                  handle)

CompleteHandle(S, paradigm, file, value) ==
  IF S.stack = <<>> THEN Abort(S)
  ELSE IF Nested(S) THEN [S EXCEPT !.stack[1].recursive_creation_counter = @ - 1]
  ELSE LET handle == S.stack[1].handle
           named == [S.handles[handle] EXCEPT !.value = value,
                                              !.file = IF file = "" THEN @ ELSE file]
       IN  CreateEvent(insert_handle([PopEntry(S) EXCEPT !.handles[handle] = named], paradigm, handle),
                  handle)

(* SCOREP_IoMgmt_DropIncompleteHandle *)
DropIncompleteHandle(S) == IF S.stack = <<>> THEN Abort(S) ELSE PopEntry(S)

PushHandle(S, handle) == IF handle = INVALID THEN S ELSE PushEntry(S, handle, FALSE)
PopHandle(S, handle) ==
  IF handle = INVALID THEN S
  ELSE IF S.stack = <<>> \/ S.stack[1].handle # handle THEN Abort(S) ELSE PopEntry(S)

-----------------------------------------------------------------------------
(* Wrappers *)

StateOf(t) == [handles |-> handles, table |-> table, stack |-> handle_stack[t],
               active |-> active, strays |-> strays, aborted |-> aborted]
Becomes(t, S) ==
  /\ handles' = S.handles /\ table' = S.table
  /\ handle_stack' = [handle_stack EXCEPT ![t] = S.stack]
  /\ active' = S.active /\ strays' = S.strays /\ aborted' = S.aborted

EnterWrapper(t, frame) == wrapper' = [wrapper EXCEPT ![t] = <<frame>> \o @]
InWrapper(t, pc) == ~aborted /\ wrapper[t] # <<>> /\ wrapper[t][1].pc = pc
Here(t) == wrapper[t][1]
Continue(t, frame) == wrapper' = [wrapper EXCEPT ![t] = <<frame>> \o Tail(@)]

(* A wrapper returns; the value is that of the call of open in the wrapper *)
(* around it, if there is one.                                             *)
ReturnFromWrapper(t) ==
  wrapper' = [wrapper EXCEPT ![t] =
    IF Len(@) = 1 THEN <<>>
    ELSE <<[@[2] EXCEPT !.fd = Here(t).fd, !.pc = "opened"]>> \o SubSeq(@, 3, Len(@))]

NoFrame == [call |-> "", pc |-> "", fd |-> 0, newfd |-> 0, stream |-> 0, file |-> "",
            reference |-> 0, handle |-> INVALID, other |-> INVALID, failed |-> FALSE]

(* The program calls a function on values that no other call is using.     *)
CallFunction(t, call, frame) ==
  /\ wrapper[t] = <<>> /\ ~aborted
  /\ t \in io_setup.locations /\ call \in io_setup.functions
  /\ io_calls < io_setup.io_calls
  /\ io_calls' = io_calls + 1
  /\ EnterWrapper(t, [frame EXCEPT !.call = call])

InFunction(t, calls) == Here(t).call \in calls
Quiet == UNCHANGED <<programVars, io_calls>>

FdInUse(fd) == \E t \in IoLocations, i \in 1 .. 2 :
  i <= Len(wrapper[t]) /\ fd \in {wrapper[t][i].fd, wrapper[t][i].newfd}
OfStream(fd) == \E s \in Streams : stream_fd[s] = fd
Usable(fd) == open_files[fd] # "" /\ ~OfStream(fd) /\ ~FdInUse(fd)
UsableStream(s) == stream_fd[s] # 0 /\ ~FdInUse(stream_fd[s])

MayFail(feature) == {failed \in BOOLEAN : failed => feature \in io_setup.features}
FreeDescriptors == {fd \in io_setup.descriptors : open_files[fd] = ""}
Lowest(free) == IF free = {} THEN 0 ELSE Min(free)
FindRef(t, paradigm, value) == Reference(StateOf(t), paradigm, value)
HandleAtRef(t, paradigm, value) == Referred(StateOf(t), paradigm, value, Here(t).reference)

-----------------------------------------------------------------------------
(* open, creat and fopen *)

Open(t, call, file) ==
  /\ call \in {"open", "creat", "fopen"}
  /\ CallFunction(t, call, [NoFrame EXCEPT !.pc = "open", !.file = file])
  /\ Becomes(t, BeginCreation(StateOf(t), IF call = "fopen" THEN "isoc" ELSE "posix"))
  /\ UNCHANGED programVars

LibraryCallsOpen(t) ==
  /\ InWrapper(t, "open") /\ "wrapped open" \in io_setup.features /\ ~InFunction(t, {"open"})
  /\ EnterWrapper(t, [NoFrame EXCEPT !.call = "open", !.pc = "open", !.file = Here(t).file])
  /\ Becomes(t, BeginCreation(StateOf(t), "posix"))
  /\ Quiet

SystemOpen(t) ==
  /\ InWrapper(t, "open") /\ ("wrapped open" \in io_setup.features => InFunction(t, {"open"}))
  /\ LET fd == Lowest(FreeDescriptors)
     IN  /\ open_files' = IF fd = 0 THEN open_files
                          ELSE [open_files EXCEPT ![fd] = Here(t).file]
         /\ Continue(t, [Here(t) EXCEPT !.pc = "opened", !.fd = fd])
  /\ Becomes(t, StateOf(t))
  /\ UNCHANGED <<io_setup, stream_fd, io_calls>>

OpenEnd(t) ==
  /\ InWrapper(t, "opened") /\ (InFunction(t, {"open", "creat"}) \/ Here(t).fd = 0)
  /\ Becomes(t, IF Here(t).fd = 0 THEN DropIncompleteHandle(StateOf(t))
                ELSE CompleteHandle(StateOf(t), "posix", Here(t).file, Here(t).fd))
  /\ ReturnFromWrapper(t)
  /\ Quiet

(* fopen returns a stream; the wrapper looks for its descriptor, for which *)
(* open may have made a handle ...                                         *)
FopenLookup(t) ==
  /\ InWrapper(t, "opened") /\ InFunction(t, {"fopen"}) /\ Here(t).fd # 0
  /\ LET stream == Lowest({s \in Streams : stream_fd[s] = 0})
     IN  /\ stream_fd' = [stream_fd EXCEPT ![stream] = Here(t).fd]
         /\ Continue(t, [Here(t) EXCEPT !.pc = "looked up", !.stream = stream,
                                        !.reference = FindRef(t, "posix", Here(t).fd)])
  /\ Becomes(t, StateOf(t))
  /\ UNCHANGED <<io_setup, open_files, io_calls>>

(* ... and makes one if there is none. *)
create_posix_handle(S, fd, file) == CompleteHandle(BeginCreation(S, "posix"), "posix", file, fd)

FopenEnd(t) ==
  /\ InWrapper(t, "looked up") /\ InFunction(t, {"fopen"})
  /\ LET here == Here(t)
         S == IF HandleAtRef(t, "posix", here.fd) # INVALID THEN StateOf(t)
              ELSE create_posix_handle(StateOf(t), here.fd, here.file)
     IN  Becomes(t, CompleteHandle(S, "isoc", here.file, here.stream))
  /\ ReturnFromWrapper(t)
  /\ Quiet

-----------------------------------------------------------------------------
(* Functions that take a descriptor look it up under the mutex, and read   *)
(* what they have found afterwards: SCOREP_IoMgmt_GetIoHandle.             *)

GetIoHandle(t, call, fd) ==
  /\ call \in {"read", "close", "dup", "fdopen"} /\ Usable(fd)
  /\ CallFunction(t, call, [NoFrame EXCEPT !.pc = "looked up", !.fd = fd,
                                   !.reference = FindRef(t, "posix", fd)])
  /\ Becomes(t, StateOf(t))
  /\ UNCHANGED programVars

Read(t) ==
  /\ InWrapper(t, "looked up") /\ InFunction(t, {"read"})
  /\ LET handle == HandleAtRef(t, "posix", Here(t).fd)
         S == PushHandle(StateOf(t), handle)
     IN  /\ Becomes(t, IF handle = INVALID THEN S ELSE EventOf(S, handle))
         /\ Continue(t, [Here(t) EXCEPT !.pc = "transfer", !.handle = handle])
  /\ Quiet

ReadEnd(t) ==
  /\ InWrapper(t, "transfer")
  /\ LET handle == Here(t).handle
         S == IF handle = INVALID THEN StateOf(t) ELSE EventOf(StateOf(t), handle)
     IN  Becomes(t, PopHandle(S, handle))
  /\ ReturnFromWrapper(t)
  /\ Quiet

(* (mutant: the handle stays in the table until the file is closed)        *)
CloseKeepsHandle(t) ==
  /\ InWrapper(t, "looked up") /\ InFunction(t, {"close"})
  /\ LET handle == HandleAtRef(t, "posix", Here(t).fd)
     IN  /\ Becomes(t, PushHandle(StateOf(t), handle))
         /\ Continue(t, [Here(t) EXCEPT !.pc = "close", !.handle = handle])
  /\ Quiet

Close(t) ==
  /\ InWrapper(t, "looked up") /\ InFunction(t, {"close"})
  /\ LET handle == HandleAtRef(t, "posix", Here(t).fd)
         S == PushHandle(StateOf(t), handle)
     IN  /\ Becomes(t, IF handle = INVALID THEN S ELSE RemoveHandle(S, "posix", Here(t).fd))
         /\ Continue(t, [Here(t) EXCEPT !.pc = "close", !.handle = handle])
  /\ Quiet

(* close, and fclose, which closes the descriptor of the stream; if they   *)
(* fail, the file stays open, but the stream of fclose is gone.            *)
SystemClose(t) ==
  /\ InWrapper(t, "close")
  /\ \E failed \in MayFail("close fails") :
       /\ open_files' = [open_files EXCEPT ![Here(t).fd] = IF failed THEN @ ELSE ""]
       /\ Continue(t, [Here(t) EXCEPT !.pc = "closed", !.failed = failed])
  /\ stream_fd' = [s \in Streams |-> IF s = Here(t).stream THEN 0 ELSE stream_fd[s]]
  /\ Becomes(t, StateOf(t))
  /\ UNCHANGED <<io_setup, io_calls>>

(* The event is written whether close failed or not. *)
CloseEnd(t) ==
  /\ InWrapper(t, "closed") /\ InFunction(t, {"close"})
  /\ LET handle == Here(t).handle
         S == PopHandle(StateOf(t), handle)
     IN  Becomes(t, IF handle = INVALID THEN S
                    ELSE DestroyEvent(IF Here(t).failed THEN insert_handle(S, "posix", handle) ELSE S,
                                 handle))
  /\ ReturnFromWrapper(t)
  /\ Quiet

Fdopen(t) ==
  /\ InWrapper(t, "looked up") /\ InFunction(t, {"fdopen"})
  /\ \E failed \in MayFail("fdopen fails") :
       LET stream == IF failed THEN 0 ELSE Lowest({s \in Streams : stream_fd[s] = 0})
       IN  /\ stream_fd' = IF failed THEN stream_fd
                           ELSE [stream_fd EXCEPT ![stream] = Here(t).fd]
           /\ Continue(t, [Here(t) EXCEPT !.pc = "associated", !.stream = stream, !.failed = failed,
                                          !.handle = HandleAtRef(t, "posix", Here(t).fd)])
  /\ Becomes(t, BeginCreation(StateOf(t), "isoc"))
  /\ UNCHANGED <<io_setup, open_files, io_calls>>

FdopenEnd(t) ==
  /\ InWrapper(t, "associated")
  /\ LET handle == Here(t).handle
     IN  Becomes(t, IF Here(t).failed \/ handle = INVALID THEN DropIncompleteHandle(StateOf(t))
                    ELSE CompleteHandle(StateOf(t), "isoc", handles[handle].file, Here(t).stream))
  /\ ReturnFromWrapper(t)
  /\ Quiet

-----------------------------------------------------------------------------
(* dup, and dup2, which looks up the descriptor it is to replace first.    *)
(* Where several threads open files, that descriptor has to be an open one.*)

Dup2(t, fd, newfd) ==
  /\ newfd \in io_setup.descriptors
  /\ Usable(fd) /\ ~OfStream(newfd) /\ ~FdInUse(newfd)
  /\ open_files[newfd] # "" \/ io_setup.locations = {t}
  /\ CallFunction(t, "dup2", [NoFrame EXCEPT !.pc = "looked up new", !.fd = fd, !.newfd = newfd,
                                     !.reference = FindRef(t, "posix", newfd)])
  /\ Becomes(t, StateOf(t))
  /\ UNCHANGED programVars

Dup2LookupOld(t) ==
  /\ InWrapper(t, "looked up new")
  /\ Continue(t, [Here(t) EXCEPT !.pc = "looked up",
                                 !.other = HandleAtRef(t, "posix", Here(t).newfd),
                                 !.reference = FindRef(t, "posix", Here(t).fd)])
  /\ Becomes(t, StateOf(t))
  /\ Quiet

(* A descriptor that dup2 will close is closed before the call. *)
DupBegin(t) ==
  /\ InWrapper(t, "looked up") /\ InFunction(t, {"dup", "dup2"})
  /\ LET here == Here(t)
         old == HandleAtRef(t, "posix", here.fd)
         new == here.other
         closed == IF new = INVALID THEN StateOf(t)
                   ELSE DestroyEvent(RemoveHandle(StateOf(t), "posix", here.newfd), new)
     IN  /\ Becomes(t, IF old = INVALID \/ (new # INVALID /\ here.fd = here.newfd)
                       THEN StateOf(t) ELSE BeginDuplication(closed, "posix", old))
         /\ Continue(t, [here EXCEPT !.pc = "duplicate", !.handle = old])
  /\ Quiet

SystemDup(t) ==
  /\ InWrapper(t, "duplicate")
  /\ LET newfd == IF InFunction(t, {"dup"}) THEN Lowest(FreeDescriptors) ELSE Here(t).newfd
     IN  /\ open_files' = IF newfd = 0 THEN open_files
                          ELSE [open_files EXCEPT ![newfd] = open_files[Here(t).fd]]
         /\ Continue(t, [Here(t) EXCEPT !.pc = "duplicated", !.newfd = newfd])
  /\ Becomes(t, StateOf(t))
  /\ UNCHANGED <<io_setup, stream_fd, io_calls>>

DupEnd(t) ==
  /\ InWrapper(t, "duplicated")
  /\ LET old == Here(t).handle
         newfd == Here(t).newfd
     IN  Becomes(t, IF old = INVALID \/ newfd = Here(t).fd THEN StateOf(t)
                    ELSE IF newfd = 0 THEN DropIncompleteHandle(StateOf(t))
                    ELSE CompleteHandle(EventOf(StateOf(t), old), "posix", "", newfd))
  /\ ReturnFromWrapper(t)
  /\ Quiet

-----------------------------------------------------------------------------
(* fclose and freopen *)

RemoveStream(t, s) ==
  RemoveHandle(RemoveHandle(StateOf(t), "isoc", s), "posix", stream_fd[s])
StreamFrame(t, s, pc, file) ==
  [NoFrame EXCEPT !.pc = pc, !.file = file, !.stream = s, !.fd = stream_fd[s],
                  !.handle = FindHandle(StateOf(t), "isoc", s),
                  !.other = FindHandle(StateOf(t), "posix", stream_fd[s])]

Fclose(t, s) ==
  /\ UsableStream(s)
  /\ LET frame == StreamFrame(t, s, "close", "")
     IN  /\ CallFunction(t, "fclose", frame)
         /\ Becomes(t, PushHandle(RemoveStream(t, s), frame.handle))
  /\ UNCHANGED programVars

DestroyIfValid(S, handle) == IF handle = INVALID THEN S ELSE DestroyEvent(S, handle)
ReinsertIfValid(S, paradigm, handle) ==
  IF handle = INVALID THEN S ELSE insert_handle(S, paradigm, handle)

(* If fclose failed, both handles are put back; the event of the stream's  *)
(* is written all the same.                                                *)
FcloseEnd(t) ==
  /\ InWrapper(t, "closed") /\ InFunction(t, {"fclose"})
  /\ LET handle == Here(t).handle
         other == Here(t).other
         S == PopHandle(StateOf(t), handle)
         closed == IF Here(t).failed
                   THEN ReinsertIfValid(insert_handle(S, "isoc", handle), "posix", other)
                   ELSE DestroyIfValid(S, other)
     IN  Becomes(t, IF handle = INVALID THEN S ELSE DestroyEvent(closed, handle))
  /\ ReturnFromWrapper(t)
  /\ Quiet

Freopen(t, s, file) ==
  /\ UsableStream(s)
  /\ LET frame == StreamFrame(t, s, "reopen", file)
     IN  /\ CallFunction(t, "freopen", frame)
         /\ Becomes(t, BeginDuplication(RemoveStream(t, s), "isoc", frame.handle))
  /\ UNCHANGED programVars

(* A freopen that fails has closed the file and the stream. *)
SystemReopen(t) ==
  /\ InWrapper(t, "reopen")
  /\ \E failed \in MayFail("freopen fails") :
       /\ open_files' = [open_files EXCEPT ![Here(t).fd] = IF failed THEN "" ELSE Here(t).file]
       /\ stream_fd' = [stream_fd EXCEPT ![Here(t).stream] = IF failed THEN 0 ELSE @]
       /\ Continue(t, [Here(t) EXCEPT !.pc = "reopened", !.failed = failed])
  /\ Becomes(t, StateOf(t))
  /\ UNCHANGED <<io_setup, io_calls>>

FreopenEnd(t) ==
  /\ InWrapper(t, "reopened")
  /\ LET here == Here(t)
         S == DestroyIfValid(DestroyIfValid(StateOf(t), here.handle), here.other)
     IN  Becomes(t, IF here.failed THEN DropIncompleteHandle(StateOf(t))
                    ELSE CompleteHandle(create_posix_handle(S, here.fd, here.file),
                                  "isoc", here.file, here.stream))
  /\ ReturnFromWrapper(t)
  /\ Quiet

-----------------------------------------------------------------------------
(* The standard output is open, and has a handle that was created before   *)
(* (SCOREP_IoMgmt_CreatePreCreatedHandle).                                 *)
IoInit ==
  /\ io_setup \in IoSetups
  /\ open_files = [fd \in Descriptors |-> IF fd = 1 THEN "stdout" ELSE ""]
  /\ stream_fd = [s \in Streams |-> 0]
  /\ handles = <<[paradigm |-> "posix", value |-> 1, file |-> "stdout"]>>
  /\ table = [posix |-> [v \in Descriptors |-> IF v = 1 THEN <<1>> ELSE <<>>],
              isoc |-> [v \in Streams \cup {1} |-> <<>>]]
  /\ handle_stack = [t \in IoLocations |-> <<>>]
  /\ wrapper = [t \in IoLocations |-> <<>>]
  /\ active = {1} /\ strays = {} /\ aborted = FALSE
  /\ io_calls = 0

NoIoCall == \A t \in IoLocations : wrapper[t] = <<>>
IoStop == (NoIoCall \/ aborted) /\ UNCHANGED ioVars

IoNext ==
  \/ IoStop
  \/ \E t \in IoLocations :
       \/ \E call \in {"open", "creat", "fopen"}, file \in Files : Open(t, call, file)
       \/ LibraryCallsOpen(t) \/ SystemOpen(t) \/ OpenEnd(t)
       \/ FopenLookup(t) \/ FopenEnd(t)
       \/ \E call \in {"read", "close", "dup", "fdopen"}, fd \in Descriptors :
            GetIoHandle(t, call, fd)
       \/ Read(t) \/ ReadEnd(t)
       \/ Close(t) \/ SystemClose(t) \/ CloseEnd(t)
       \/ Fdopen(t) \/ FdopenEnd(t)
       \/ \E fd, newfd \in Descriptors : Dup2(t, fd, newfd)
       \/ Dup2LookupOld(t) \/ DupBegin(t) \/ SystemDup(t) \/ DupEnd(t)
       \/ \E s \in Streams : Fclose(t, s)
       \/ FcloseEnd(t)
       \/ \E s \in Streams, file \in Files : Freopen(t, s, file)
       \/ SystemReopen(t) \/ FreopenEnd(t)

IoSpec == IoInit /\ [][IoNext]_ioVars

-----------------------------------------------------------------------------
(* Every event is written for a handle that is active ("An active I/O      *)
(* handle which will be inactivated"), and a transfer for the handle of    *)
(* the file that is behind the descriptor, however other threads reuse     *)
(* descriptors; the stack of the handles is never found in a state that    *)
(* SCOREP_IoMgmt_CompleteHandleCreation or -PopHandle rules out.           *)
OperationsOnOpenFile ==
  /\ strays = {} /\ ~aborted
  /\ \A t \in IoLocations :
       InWrapper(t, "transfer") /\ Here(t).handle # INVALID =>
         handles[Here(t).handle].file = open_files[Here(t).fd]

(* Whenever no call is running, the tables hold one handle for each open   *)
(* descriptor and each open stream, with the name of its file, these are   *)
(* the handles that the trace shows active, and the stacks are empty.      *)
HandlesOf(paradigm) == UNION {Range(table[paradigm][v]) : v \in DOMAIN table[paradigm]}
TableEntries(paradigm) == {<<handles[h].value, handles[h].file>> : h \in HandlesOf(paradigm)}
OpenDescriptors == {fd \in Descriptors : open_files[fd] # ""}
OpenStreams == {s \in Streams : stream_fd[s] # 0}

TableMatchesFiles ==
  NoIoCall =>
    /\ TableEntries("posix") = {<<fd, open_files[fd]>> : fd \in OpenDescriptors}
    /\ TableEntries("isoc") = {<<s, open_files[stream_fd[s]]>> : s \in OpenStreams}
    /\ active = HandlesOf("posix") \cup HandlesOf("isoc")
    /\ Cardinality(active) = Cardinality(OpenDescriptors) + Cardinality(OpenStreams)
    /\ \A t \in IoLocations : handle_stack[t] = <<>>

(* SCOREP_IoMgmt_GetIoHandle "Queries an active Score-P I/O handle": what  *)
(* a transfer finds is the handle of its descriptor.                       *)
QueryFindsHandle ==
  \A t \in IoLocations :
    InWrapper(t, "transfer") => /\ Here(t).handle # INVALID
                         /\ handles[Here(t).handle].value = Here(t).fd
=============================================================================
