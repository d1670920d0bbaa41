# dps: models, checks and proofs

dps passes messages between processes in dma_buf memory. A **publisher** (`dps::PublisherBase`)
allocates its buffers and an event, writes their descriptors into one more dma_buf, the *info
buffer*, and makes it known by creating an empty file `\<pid>\<fd>` in the directory of its topic
under `/dev/shm/.dps/`. A **subscriber** (`apps/inotify_topic.cpp`) watches that directory with
inotify, reads a pid and a descriptor out of a file name, and takes the descriptor over with
`pidfd_open` and `pidfd_getfd`. Nobody locks anything: what protects a subscriber from a
descriptor that was closed and reused is only the order in which publishers write, create, remove
and close, and the events that follow. These modules are about that order.

## 1. Inventory

| Component | State | Operations | Interacts with |
|---|---|---|---|
| `simplify_topic_name` (`include/dps/core/common.h`) | the name built so far, a slash flag | one loop over the characters | gives the path of the topic's directory |
| `dps::Event` (`src/event.cpp`) | an eventfd in semaphore mode | constructor, destructor, `notify()` (write 1, read 1) | its descriptor is in the info buffer; epoll waiters in other processes |
| `dps::DMABuffer` (`src/dma_buffer.cpp`) | a descriptor, a mapping, size and names | allocate from a heap, connect to `(pid, fd)`, read `/proc/self/fdinfo`, close | the descriptor table of its process |
| `dps::PublisherBase` (`src/publisher_base.cpp`) | its buffers, its event, the info buffer, the info file's path | constructor, destructor (`publish` is only declared) | DMABuffer, Event, the topic's directory |
| topic directory | the files, the inotify watches and queues | create, close, unlink, mkdir, `rm -rf` | shared by all processes; belongs to the kernel |
| `apps/inotify_topic.cpp` | inotify descriptor, attached buffer, the batch of events | scan, connect, display, read events, start over | the directory, the publishers' tables |
| `apps/create_publisher_base.cpp` | | `rm -rf` of the base path, one publisher, an explicit destructor call | the directory of everybody |
| `dps::Node` (`src/_node.cpp`, not built) | its pid's directory | constructor, signal handler that removes all files of the pid and exits, destructor (calls the handler) | the files of its process's publishers |
| `dps::BasePublisher` (`src/_base_publisher.cpp`, not built) | buffers, one file each | constructor, destructor | the topic's directory, the Node of its process |
| the other apps | one or two `DMABuffer`s | create, open and poll a buffer by hand | DMABuffer |
| `experiments/video4linux/dmabuf-v4l2.c` | the options, a ring of dma_buf buffers, the one that was dequeued | set-up, then poll, DQBUF, show, QBUF | the camera and its driver |
| `experiments/render/Linux_DRM_OpenGLES.c` | connector, mode, CRTC; two locked GBM buffers, a pending flip | `init_drm`; the render loop | GBM, the kernel's page flips, stdin |
| `experiments/render/drm_test.c` | a list of displays, a dumb buffer, the saved CRTC | find, make, show, restore, destroy | the CRTCs, whoever owns what they showed |
| `experiments/garbage_collector/main.cpp` (not modelled) | a queue of objects, the node, signal handlers | `anonce`, a handler that destroys everything and raises the signal again | signals, its own handlers |
| `experiments/uvc_camera/capture.c` (not modelled) | what `main` has acquired, one frame of `cb()` | acquire, stream for ten seconds, give back; `cb()` | libuvc's thread |
| `experiments/linux_proxy`, `dma_sync/notify_files_changed.py` | a watch, the events read | add a watch, poll, FIONREAD, read, print | the kernel's event queue |
| `experiments/dma_proxy`, `dma_sync/temp_file.py` (not modelled) | a locked node file per pid | `shm_open`, a handler that removes the file | signals, a child, the pid's next process |
| the rest of `experiments/` | | language and library trials, wrappers of single system calls | nothing of the above |

What is hard here: threads of one process share a table in which closed numbers come back at once;
a name is read at one time and used at another; events queue up behind what already happened, merge,
and are lost when the queue is full; a process may be killed between any two steps and its pid given
to another one; `open`, `opendir`, `inotify_add_watch`, `eventfd` fail unnoticed; 0 is taken for "no
descriptor". In `experiments/` a device works beside the program: a camera fills buffers, the screen
flips, and a key may be pressed at any moment. What makes each part correct: a topic has one spelling as a path; `notify()` never waits
and leaves nothing behind; a publisher owns every descriptor it records and loses none; a file
designates a usable publisher; a subscriber shows a registered publisher or is about to look again,
learns of every publisher, and gets to one that stays; a frame buffer has one holder, and is filled again
only after it was let go; what was acquired or changed is given back, whichever call fails. `PROJECT.json` lists the hazards line by line
with the properties that cover them.

## 2. Modules

    TopicName                                TopicName_proof
      InfoFileName - MCTopicName             TopicName_proof
    EventNotify                              EventNotify_proof
    TopicDirectory
      PublisherBase -- MCPublisherBase       PublisherBase_proof
        InotifyTopic -- MCInotifyTopic       InotifyTopic_proof
    Discovery (abstract), implemented by InotifyTopic
    DMABuffer ------ MCDMABuffer             DMABuffer_proof
    LegacyNode ----- MCLegacyNode            LegacyNode_proof
    BufferRing (abstract)
      V4L2Capture -- MCV4L2Capture           V4L2Capture_proof
      PageFlip
    CardSetup, PageFlip
      RenderMain --- MCRenderMain            RenderMain_proof
    DumbBuffer ----- MCDumbBuffer            RenderMain_proof
    InotifyProxy                             EventNotify_proof

**TopicName** is the loop of `simplify_topic_name`, one action per branch, over letters, `/` and the
service character. A read before the first character of an empty name is recorded in `outOfBounds`.
Its reference definition, without a loop, is `Kept`, the characters that survive, and `IsCanonical`, the name they make.

**EventNotify** is one `Event` used by several threads: `Write` and `Read` are the two system calls of
`notify()`, `Killed` a process that dies between them, `EpollWait` and `WaitAgain` the edge-triggered
waiters of `experiments/sync/eventfd_read.py`. `opened` is FALSE when `eventfd` failed, which the
constructor does not notice.

**TopicDirectory** is the kernel's side, taken from how the code uses it: files, watches, one queue of
events per watcher with the overflow event of a full queue, else the merging of equal neighbours, and `rm -rf` as a
process that lists, unlinks one by one and removes the directory. `detached` holds the names whose
still open file was in a directory that is gone: closing it is no event any more.

**PublisherBase** follows the constructor and the destructor call by call. `fds` is the descriptor
table of each process (what every number refers to), the other variables are members of the objects.
`OpenHeap`, `Allocate`, `UpdateBufferInfo` are one `DMABuffer` being built (the buffer gets its number
while the heap holds one, so the numbers are those of the real program); `CreateEvent`, `FillInfo`,
`OpenInfoFile`, `CloseInfoFile` the rest of the constructor; `RemoveInfoFile`, `ResetInfoBuffer`,
`ResetDmaBuffer`, `ResetEvent` the destructor. `AllocationRaises` is `raise(SIGSEGV)`, `Exit` what the
kernel then does, `Boot` a new process of the same pid. `Threaded` tells whether publishers of a
process are used by concurrent threads or one after the other; `Privileged` whether permission
0000 of an info file stops a later `open`. A publisher is built at most once; a rebuilt one is another
element of `Pub`.

**InotifyTopic** adds the subscribers. `spc` is the place in `main`: `SStart` is the label `start`,
`SStat`, `SAddWatch`, `SScan` the opening of a path, `SPidfdOpen` and `SGetFd` the two halves of
`DMABuffer::connect` (a pidfd means a *process*, hence `boot`), `SRead` FIONREAD and `read`, `SDeleted`,
`SCreated`, `SIgnored` the branches of the event loop. `batch` is what was read and not yet handled:
a restart throws it away, as `goto start` does. `Dies` is a SIGSEGV. `MayTrace` says which processes a
subscriber has the right to take descriptors from (PTRACE_MODE_ATTACH_REALCREDS, `dma_buffer.cpp:104`): another user's process, or one
that yama protects, refuses them (`Refused`), usable or not, and the subscriber dies.

**Discovery** is abstract: what publishers and subscribers promise each other, without files, events and descriptors. Its state is
the `life` of each publisher, who is `listed`, what each subscriber has `shown`, who is `warned`, who is just being `refused` and whether somebody has `swept`.
**InotifyTopic** implements it under the mapping at its end: listed is who is `Usable` and has a file; warned is who has an unread
deletion, is about to start over or is blind; a borrowed buffer is shown. Creating the file is `Ready`, removing it `Leave`, an
exit `Kill`, a step of `rm -rf` `Sweep` or `Unlist`, closing the file at most `Miss`; `SAddWatch`, `SGetFd` and `SStart` are `Watch`, `Show` and
`StartOver`; the `pidfd_open` of a process that may not be traced is `Refuse`. A death of a subscriber is a `Die`, which Discovery allows to one
that shows nothing only when it is refused, warned, or misled by a killed publisher or a sweep (`Fails`), and to one that shows a buffer only when
it is not the info buffer of a publisher that can be found.

**InfoFileName** is what a subscriber does with a name it finds in the directory: `split()`, as the places where it cuts, `stoi`, and the
parts `open_dma_buffer()` takes. An index past the parts, and a word without a number, end the process. It extends
`TopicName`, because a name in the directory is an info file or a component of what `simplify_topic_name` returned.

**DMABuffer** is the class member by member, in one thread: the length a heap rounds up, the name with its
fixed array, what `update_buffer_info` finds in fdinfo, the mapping, both runs of the destructor. The kernel writes the name as it is, and every line is
parsed: `Fields` are the lines behind the first newline of a name that begin like a field, `ReadSize` and `ReadName` what comes out, `Numeral` which
texts `std::stoul` makes a number of, and which (for any other it throws and the process ends). `exp_name` lines only change a member nothing uses. A
*program* is the sequence of calls a `main` makes; `MCDMABuffer` writes down those of `apps/` and of a
publisher. `PublisherBase` and `InotifyTopic` keep of all that only the descriptor.

**LegacyNode** is the older pair of classes, which is not built any more: the names `DPS_TOPIC_SEPARATOR` and
`DPS_NODE_PATH` are no longer in `common.h`, and the separator is any character that is no digit. `hpc` is
where a process's Node or its signal handler is, `pc` where its publishers are. A process is one thread: a
`Signal` comes between any two steps, and what it interrupted never goes on. `ScanFds` is how many
descriptors the handler's directory iterators hold at once; with fewer it throws (`HandlerThrows`).

**BufferRing** is abstract: what a ring of buffers promises to whoever fills and whoever looks at them. Every
buffer has one holder, frames are taken in the order they were completed, a buffer is filled again only
after the consumer has let go of it. **V4L2Capture** implements it with the driver and the camera as the producer
and the loop as the consumer, **PageFlip** with the renderer as the producer and the screen as the consumer;
the mapping (`RingHolder`) is at the end of each module.

**V4L2Capture** follows `main` from the command line to the loop. `queued`, `dma` and `done` are where the driver
has the buffers, `mem` and `cache` what the camera wrote and what the CPU sees. A driver grants the format it is
asked for or any of `DriverFormats`, and the buffers have that size: a picture that takes more (`Overruns`) may end the program; `Coherent` says that the CPU's cache sees the camera's writes.

**CardSetup** is `init_drm`: connector, mode, encoder and CRTC of a card given as lists, with `NotFound`
for the unsigned -1; a connector or an encoder that has gone since the card listed it is a NULL that is dereferenced (`NoAnswer`). **PageFlip** is the loop that comes after. `stdin` is a pressed key nobody reads;
`fds` is the descriptor set that `select` overwrites and nothing fills again. **RenderMain** is the
program: nothing is drawn before `init_drm` has succeeded, and the kernel refuses a CRTC the card does not have.

**DumbBuffer** is `drm_test.c`: every call that makes, saves, shows or gives back something; `Fatal` is the end any
of them may have, `OwnerRemoves` another program that removes a framebuffer the test has only remembered.

**InotifyProxy** is the event loop of `notify_files_changed.py` with the C++ function it calls.

## 3. Runs

| Run | Configuration | What it shows |
|---|---|---|
| `topic_name` | all spellings up to 6 characters over a letter, 2 digits, `/`, `\` | `ReturnsSimple`, `ReturnsCanonical`; `OutOfBoundsOnlyWithoutLetter`: the bad read happens for exactly the spellings without a letter; `OnlyInfoFilesConnect` |
| `event_notify` | 3 notifiers, 2 waiters | `CountsRaised`, `ReadNeverBlocks`, `WokenOnlyWhileRaised`, and `NotifyReturns` under fairness |
| `publisher_crash` | 2 publishers on 2 threads, 2 message buffers each, 6 descriptors (so that the table fills up), no standard streams, kills, a second process of the same pid, one `rm -rf` | `FilesDesignatePublishers`, `OnlyZeroLeaks`: every interleaving of building and destroying, with reuse of numbers and the loss of descriptor 0 |
| `topic_one_host` | 1 subscriber, 2 publishers on concurrent threads of one process | `RegistrationPending` with descriptors reused under the subscriber's hands, and the liveness properties `EventuallyAttached`, `DestroyedIsDropped` |
| `topic_crash` | kills, pids used three times, the second process of a pid refuses its descriptors, one `rm -rf`, a queue of 1 event, 5 descriptors | `AttachmentSound`, `RegistrationPending`, `ConnectFailsOnlyIfWarned` when the pid of a file is another process, events are dropped and `opendir` fails; the refinement `ImplementsDiscovery` |
| `topic_stale_file` | unprivileged, a kill, the pid reused | a violation: see 5 |
| `legacy_signals` | processes 1, with a Node only, and 12, with 2 publishers of 2 buffers; 4 descriptors, both pids used twice | `ExitLeavesNothing`, `FilesDesignateBuffers`, `OnlyOwnerRemoves`, `SignalEndsProcess` (a liveness property) |
| `dma_buffer` | the programs of `apps/`, a publisher with 5 sizes and 14 names, five of them of two lines that read as fields, descriptors 0 to 5, with or without standard streams | `MembersDescribeBuffer`, `NothingLost`, `NeverZero`, `NameKept` |
| `capture` | 3 buffers, 7 command lines, 4 frames, a coherent machine | `EachBufferInOnePlace`, `ShowsTheDequeuedFrame`, the refinement `ImplementsRing`, `FramesAreTaken` |
| `render` | every list of up to 3 modes, every wiring of 2 encoders to 2 CRTCs, any of it gone when asked for; 3 GBM buffers, room for 2 events, a key at any moment | `ModeIsTheLaterBest`, `StrangeCrtcOnlyFrom`, `NeverDrawsWhatIsShown`, the refinement `ImplementsRing`, `FlipsEnd` |
| `dumb_buffer` | up to 3 connectors of every kind, 2 CRTCs | `ScreensRestored`, `OthersUntouched`, `NothingLeft` |
| `inotify_proxy` | 2 files, 4 events | `EachEventOnce`, `ReadNeverWaits`, `EventsArePrinted`; deadlock |

**The properties in words.** `FilesDesignatePublishers`: whoever finds a file finds the name of a
written info buffer whose descriptors are all open, or the leftover of a killed publisher.
`OnlyZeroLeaks`: every open descriptor of a publisher is one it will close, but for descriptor 0 of one
that is destroyed. `AttachmentSound`: between two rounds of events the attached buffer is the one its
file designates, or an unread DELETE will make the subscriber start over, or it is *blind* (its watch was
never made, or an event was dropped), or the file is an orphan, or an `rm -rf` has begun. Each of these excuses is
needed: `topic_crash` fails without any one of them.
`RegistrationPending`: a subscriber without a publisher that is not blind has, for each file, the event in
its queue or the file not yet closed. `ConnectFailsOnlyIfWarned`: connecting kills the subscriber only
when the process refuses its descriptors, or the withdrawal of the name is in the subscriber's queue or batch, or it is blind, or a
killed publisher left the file, or an `rm -rf` has begun. A publisher that leaves in order kills nobody it has not warned: should it close a
descriptor before the file is removed, or not remove it, TLC finds the death.
`ImplementsDiscovery`: a publisher can be found only from the end of its constructor to the beginning of its destructor, whose first
step warns everybody; a subscriber shows a publisher that can be found, if it is not warned and nothing left over by a killed one or
an `rm -rf` misleads it; it starts over only when warned, watches again only when it shows nothing, and dies only when it is refused, warned or misled.
`ExitLeavesNothing`: when a handler came to its end, no file and no directory of the pid is left, those of
killed predecessors included. `OnlyOwnerRemoves`: no handler removes the files of a pid its own is a prefix
of. `FilesDesignateBuffers`: a file names an open buffer, but for the moment in which the destructor has closed
it already, and for dead processes. `SignalEndsProcess`: unless signals keep coming, a caught one ends the process.

`MembersDescribeBuffer`: an object that is built holds the descriptor of its own buffer, whatever other objects did, and maps the pages that
`size()` bytes take, all of them in the buffer; and `size()` is the buffer's, unless a further line of the name sets one. `NothingLost`: between two calls nothing is open or mapped that no object records.
`NameKept`: a name that fits is found again, and none is longer than the kernel allows. `OnlyInfoFilesConnect`: a subscriber
reads the numbers an info file was named after, and takes no nested topic for an info file (it does not survive one). `EachBufferInOnePlace`: no buffer is with the driver and with the loop at
once, and none is lost. `ShowsTheDequeuedFrame`: what is shown is what DQBUF returned. `ModeIsTheLaterBest` and `StrangeCrtcOnlyFrom` say exactly what `init_drm` computes, the cases
where it is not what was meant included. `ScreensRestored`: at the end every CRTC shows what it showed, unless the owner
has removed it. `NeverDrawsWhatIsShown`: until
input has ended a wait, nothing is drawn into a buffer that is on the screen or about to be; `FlipsEnd`: every wait for a flip ends.
`EachEventOnce`: however many events come between FIONREAD and `read`, each is printed once, in order.

**Bounds.** `MaxFd` (a limit of the table, RLIMIT_NOFILE), `MaxQueue` (max_queued_events), `MaxBoots`
(processes per pid), `Cleanings` (how often `rm -rf` runs), `MaxLength` of a spelling. Two publishers are
enough for one to take the numbers another gave back while a subscriber still has the name of the first; two boots for a pid to mean
another process (three in `topic_crash`, where the second refuses its descriptors), one `rm -rf` for every step of it to fall between any two of the others, a queue of one to overflow behind whatever was read before.
A batch may hold the events of both publishers. `queue_size` 2 in `publisher_crash` has a first and a last buffer; 0 in
`topic_one_host` is legal and keeps the state small. Three capture buffers are enough for one to be filled, one
completed and one shown at once, three GBM buffers for one to be drawn while two are locked; `Frames` stops the camera after the first
buffer has come round again. Spellings of 6 characters hold two components with repeated separators between and around them, and in
`OnlyInfoFilesConnect` numbers of two digits. The type invariants are not among the runs: they are proved, with the inductive invariants (`CopyInv`, `BufferInv`, `ScreenInv`, `ProxyInv`, ...), which
were tried with TLC first. The proofs have none of these bounds.

**Deadlock** is checked in `inotify_proxy`, whose script never ends. Elsewhere programs return or die: publishers
that are destroyed and processes at their last boot really stop, and a subscriber without events changes nothing.

**Fairness.** `EventNotify` is fair to `Read`: it is one system call away and, as `ReadNeverBlocks` says,
does not wait. `InotifyTopic` is fair to each subscriber as a whole: it is one thread that polls and never
waits for anybody. `LegacyNode` is fair to
handlers, which run without waiting. Publishers, kills and `rm -rf` are under no fairness: `EventuallyAttached` speaks only of a
publisher that stays, and of a subscriber that connecting did not kill. In the other modules the fair part is
the program, one thread that is never kept from running, or the part of it that waits for nobody (the loop of `V4L2Capture`), and in
`RenderMain` the vertical blank, which the hardware gives. Keys, cameras, failures and other programs are under none.

## 4. Proofs

For any number of publishers, processes, buffers and descriptors, any exits and any reuse of pids:

* `OwnershipInvariant`: `Spec => []OwnershipInv`. `FilesDesignatePublishers` is not inductive: that closing
  a number does not take it from somebody else needs that everybody owns what he records (`Owns`), and that
  needs to know which fields are set at which step (`Ordered`). A file is tied to its creator by
  `FilesRegistered`, whose record of the descriptor does not change until the file is gone.
  There is one lemma per action; `OwnStep` says that a step that changes the tables only where nothing, or
  something of its publisher, was open leaves everybody else's `Owns` intact.
* `TypeCorrect` and `FilesUsable` (the property `FilesDesignatePublishers`) follow from it.
* `NoLeak`: `Spec => []OnlyZeroLeaks`, a second induction on top of the first: what a publisher forgets it has closed.
* `CountExact`, `NotifyNeverBlocks`, `NoSpuriousWakeup` of `EventNotify`, for any finite number of threads:
  the count is the cardinality of the set of calls in progress.
* `HandlerInvariant` of `LegacyNode`, `Spec => []LegacyInv`, and from it `TypeCorrect` and `NothingLeft` (the property
  `ExitLeavesNothing`): while a handler works, all files of its pid are on its list (`HandlerProgress`), since
  publishers only step while no handler runs; that files have a descriptor and a number in range needs the loop
  invariant `InLoop`.
  From it also `OwnerTheorem` (`OnlyOwnerRemoves`) and `FilesTheorem` (`FilesDesignateBuffers`).
* `TopicName`, for spellings of any length: `TypeCorrect`, `FlagExact` and `SimplifiedName` (`ReturnsSimple`), and from `CanonicalInv`
  `CanonicalName` and `FirstByte`: what the loop has copied so far (`Copied`) is what the definition without a loop keeps, but for
  one slash behind the last letter, which `Return` drops. Positions are compared by counting: a kept character stands where the number
  of kept ones up to it says. From `SimplifiedName` follows `InfoFiles` (`OnlyInfoFilesConnect`): a component has no service character, hence no second
  part, and the cuts of an info file's name are computed.
* `EventsTheorem` and `ReadTheorem` of `InotifyProxy` from `ProxyInv`, for any files and any number of events: what happened is what was
  printed, what is in the buffer and what is queued, in this order, and the queue only grows between FIONREAD and `read`.
* `DMABuffer`, for any programs, names, sizes and tables: `BufferInvariant`, and from it `BufferDescribed`, `NoLeak`, `ZeroIsNever` and
  `NameSurvives`. The size read is any number a line of the name may give:
  what is mapped is in the buffer because the kernel maps nothing behind its end. That a descriptor is an object's exactly when the object names it (`TableInv`) needs that a variable still to be constructed owns
  nothing (`Ahead`), and what a constructor holds on the way (`InStep`). The heap, or the pidfd, is open when the kernel looks for the lowest free
  number: this is all that keeps 0 from a buffer, and the part of `TableInv` about `table[0]` says so.
* `DumbBuffer`, for any card and any order of failures: `ScreenInvariant`, and from it `ScreensTheorem`, `OthersTheorem` and `NothingLeftTheorem`.
  What is owned is a function of the next call (`Made`) in the set-up and in the first `drm_destroy`, and nothing in all later ones; what was saved is what
  the CRTC showed before, or `Off` if that had been removed by then (`SavedInv`).
* `StrangeCrtcTheorem` of `CardSetup`, in any `RenderMain`: exactly when the CRTC is none of the card. `CrtcInv` says which encoders have been passed over.
* `SubTypeCorrect` of `InotifyTopic`, for any number of subscribers. `InotifyTopic` composes the
  publishers with the subscribers, so `OwnershipInvariant` holds of it as well (a subscriber's step leaves the
  publishers alone).
* `PendingTheorem` (`RegistrationPending`) from `TopicInv`. The close that announces a file may be still to come, and a
  publisher that could not create its file closes nothing: `AwaitsAll` says that each file is in an event on its way to a
  waiting subscriber or has a descriptor that its publisher is to close (`Closing`). `BatchHandled` says that no event is
  left over where a round begins.
* `AttachmentTheorem` (`AttachmentSound`) from `AttachInv`, under `NeverCleaned`: a name reached by a scan or an event is
  a file's until its DELETE is pending (`EventsTrue`, `TargetThere`); a file's publisher is registered or on its way out
  with the DELETE announced first (`RegisteredThere`, `ExitingGone`); and two active publishers never share a name.
* `ConnectTheorem` (`ConnectFailsOnlyIfWarned`) from `AttachInv` as well: from the scan or the event on, through the gap between
  `pidfd_open` and `pidfd_getfd`, the target is the name of a usable publisher and the pidfd its process (`TargetLives`), or the
  DELETE is pending. A usable publisher whose descriptors may be taken is connected to (`ConnectDeath`).
* `DiscoveryTheorem` (`ImplementsDiscovery`), the refinement of `Discovery`, from `AttachInv`, which says that nothing is shown from
  `start` to `pidfd_getfd` (`NothingAttached`), and from `OnlyZeroLeaks`, which ties a borrowed object to the process it was taken from
  (`BorrowedFrom`). That whoever is misled while connecting may die, and nobody else, is `DeathDiscovers`. Each action maps to one of `Discovery` or to a stutter; that others stay listed when one leaves needs that no two
  active publishers share a name (`NamesDiffer`). `ShowsTheorem` follows from `Discovery` alone: what `AttachmentSound` says between two rounds of
  events holds, by publisher and slot, at every step, and after an `rm -rf` has begun only its excuse is left.
* `V4L2Capture`: `OnePlaceTheorem` from `CaptureInv`, whose `SetupInv` says how far each set-up loop has come; from it `RingTheorem`, the
  refinement of `BufferRing`: the initial state maps to `Ring!Init`, each action to a ring step or to a stutter. `FrameTheorem`
  (`ShowsTheDequeuedFrame`) supposes `Coherent`: without it the cache may hold what an earlier frame left.
* `PageFlip`: `FramebufferTheorem` and `LocksTheorem` from `FlipInv`, whatever keys are pressed; `NeverDrawsTheorem` and the refinement
  `FlipRingTheorem` from `QuietInv`, which holds until input ends a wait (`Interrupted`, which stays true: `StaysInterrupted`).
  `MainImplements` carries them over to `RenderMain`, whose steps do only less: `MainNeverDraws`, `MainRingTheorem`.
* `ModeTheorem` (`ModeIsTheLaterBest`) from `SetupInv`: of the modes seen so far, `area` is the largest area and `mode` the later
  one of the last preferred mode and the first that has that area (`BestOf`). It supposes that no mode has area 0.

Numbers are chosen with `Min` and `Max` in several models; `LeastNumber` is what the proofs know of them: a set of naturals has a least
element, since strict inclusion is well-founded on the finite sets `0 .. n`.

Assumptions: the named ASSUMEs of the modules, all of them about constants, and `Coherent` in `FrameTheorem`. `Host` gives every publisher a
process; sentinels are no objects and no buffers; an info record is not `Blank`; digits are letters to `simplify_topic_name`, and `to_string` writes a number
with at least one of them; a mode has an area, and an encoder drives a CRTC of its card or none (the kernel's promises about a card);
a variable of a program is constructed once (`ProgramsAssumption`: the language's promise); the other process's buffers have sizes and names, and what is no dma_buf has none; what `stoul` makes of a text is a
natural number (`NumeralAssumption`); whom a subscriber may trace is a set of processes (`MayTraceAssumption`), any one. Only model-checked:
all liveness (`NotifyReturns`, `EventuallyAttached`, `DestroyedIsDropped`, `SignalEndsProcess`, `FramesAreTaken`, `FlipsEnd`, `EventsArePrinted`), which is out
of the prover's reach. All invariants, refinements and other action properties that the runs check are theorems.

## 5. What was found

* **`topic_stale_file`.** The comment at `src/publisher_base.cpp:105` says that creating the file generates
  IN_CLOSE_WRITE. The result of `open` is not looked at, and the file has permission 0000: when a killed
  process has left a file of that pid and descriptor, an unprivileged publisher cannot open it and nobody is
  told. It runs, under a name that happens to be right, but only subscribers that scan later see it.
* `AttachmentSound` holds only until an `rm -rf` begins: the close of a file that was unlinked is announced after its DELETE, and the
  subscriber attaches to a name that is no longer in the directory.
* The handler of `_node.cpp` claims to remove all files of its pid. It cannot when the descriptor table is full,
  which is when `allocate()` raises SIGSEGV: opening a directory fails, the iterator throws, and the process aborts
  with its files in place (`HandlerThrows`).
* `~BasePublisher` closes a descriptor before it removes the file that names it. In one thread that is a gap in
  which the name is wrong; with publishers on two threads, which nothing here uses, the file of another buffer
  could be removed. `~PublisherBase` has the right order.
* A pulse of `notify()` that is over before `epoll_wait` looks wakes nobody; the code promises nothing else.

The others were met while modelling; no run is about them alone.

* The calls that make the CPU see what the camera wrote are commented out, and the comment
  at `dmabuf-v4l2.c:436` still says that the buffer is prepared. On a machine without coherent caches an old picture is shown
  (`Show` with `Coherent` FALSE).
* `dmabuf_heap_open` tries two names out of an array of one (`pc = "wild"`).
* `-l` sets a number of frames that nothing looks at: the loop at `dmabuf-v4l2.c:408` has no end but an error. The display
  uses the width and height of the command line, where the driver may have changed them.
* In `init_drm`, "no match" is -1 and its callers test for 0: it succeeds with a CRTC that does not exist, in exactly the cases
  `StrangeCrtcOnlyFrom` lists, and `drmModeSetCrtc` then fails. A preferred mode loses against a larger one behind it, where the
  comment at `Linux_DRM_OpenGLES.c:161` has it otherwise: `ModeIsTheLaterBest` says what is computed.
* A key ends the wait for a flip while it is pending, and the buffer on the screen is released and drawn
  to, hence the condition in `NeverDrawsWhatIsShown`. The key is never read, so every later wait would end at once, were it not that
  `select` has removed standard input from a set nothing fills
  again: after the first flip event nobody listens to it. A flip asked for while one is pending is refused (EBUSY) and ends the program. A failed
  `drmModeAddFB` gives a NULL that is dereferenced.
* `create_dma_buffer` and `create_publisher_base` call a destructor that runs again at the end of `main`: with a name
  of more than 15 characters the second run frees it twice and the process aborts, after everything others see was undone.
  `DMABuffer` shows that the second run closes and unmaps nothing.
* A buffer's name, and with it a topic's, is parsed when it has a newline in it: the lines behind are read as fields of fdinfo. A line `size:1` makes the
  members say 1 byte, a larger size fails in `mmap`, and one that is no number ends the process with an uncaught exception
  (`update_buffer_info_Throws`). `MembersDescribeBuffer` says what is left: no more is mapped than there is.
* In one thread no buffer ever gets descriptor 0, which the destructor takes for none (`NeverZero`): the heap has it at that moment.
* `notify_files_changed.py` registers the *watch* descriptor with epoll: as a file descriptor 1 is the standard output, so
  the script polls without pause. `inotify_event_read` looks by itself whether there is anything to read, which is why `EventsArePrinted` holds.

## 6. Not modelled

One topic and one watched path. `create_directories` is one step, and `rm -rf` lists the directory at once. The
subscriber's own descriptors (its `inotify_fd > 0` test too), failing `mmap`, `inotify_init1` and FIONREAD, IN_IGNORED
(handled like any nameless event), and IN_DELETE_SELF arriving late because somebody holds the
directory open. What the display shows is reduced to whether the buffer is an info buffer. The second run of
`~PublisherBase` is modelled for its `DMABuffer`s and its event, not for its vectors and strings, whose second destruction is undefined. A name that reads as a field of fdinfo is in `DMABuffer` only: `PublisherBase` and `InotifyTopic`
keep the descriptors of buffers, and suppose that their names have one line.

Of `experiments/`: pixels and geometry, the display windows, EGL set-up, the wording of what is printed; events without a
name in `inotify_event_read`, which would be read past the buffer; `py_inotify_rm_watch`, which names two of its three
arguments; `drmModeGetResources` failing, which ends like a card without connectors. Not modelled at all: `uvc_camera`, a wrapper around libuvc that acquires and gives back in a fixed
order; `garbage_collector`, a trial of cleaning up in a signal handler, and the node files of `dma_proxy`, which are removed by one: `LegacyNode`
has the interruptions of both in the library itself; the template `_publisher.hpp`, which nothing includes; the generated FlatBuffers header;
`dma_proxy.cpp`, wrappers of single system calls (`borrow_fd_from_pid` never closes its pidfd); the other Python
scripts; and the trials `static_cast`, `template_match`, `flatbuffers`, `file_and_directory_delete`, which keep no
state.

## 7. Plan

1. (done) `TopicName`, `EventNotify`, `TopicDirectory`, `PublisherBase`, `InotifyTopic`, `LegacyNode`, and their proofs.
2. (done) `DMABuffer`, `InfoFileName`, the abstract `BufferRing` with its two implementations, `RenderMain`, `DumbBuffer`, `InotifyProxy`.
3. (done) `SubTypeOK` as a theorem, on top of `OwnershipInv`.
4. (done) `RegistrationPending` by induction from `TopicInv`; `AttachmentSound` and `ConnectFailsOnlyIfWarned` from `AttachInv`, as long as no `rm -rf` has begun.
5. (done) `BufferInv`, `ScreenInv`, `ProxyInv`, `CrtcInv` and `CanonicalInv`: every invariant of a run is a theorem.
6. (done) The abstract `Discovery`, and that `InotifyTopic` implements it.
7. The node files of `dma_proxy` as a module.
