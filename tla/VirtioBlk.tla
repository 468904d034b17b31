------------------------------ MODULE VirtioBlk -----------------------------
(***************************************************************************)
(* The disk driver, kernel/device/virtioblk.c, against the device: one     *)
(* split virtqueue of which the driver uses descriptors 0, 1 and 2, the    *)
(* handler of interrupt 79 (kernel/gic/gic.c) and the FIQ mask.            *)
(*                                                                         *)
(* The driver writes avail->ring[avail->idx] with idx a 16 bit counter     *)
(* that it does not reduce: the words after the ring are written too.  The *)
(* device reads ring[idx % QUEUE_SIZE].                                    *)
(***************************************************************************)
EXTENDS Integers

CONSTANTS
    QUEUE_SIZE,
    UINT16_RANGE,      \* the range of avail->idx, a le16
    Sector, Buffer,    \* sectors of the disk, buffers of callers
    Data,              \* contents of either
    NULL

ASSUME VirtioAssumption ==
    /\ {QUEUE_SIZE, UINT16_RANGE} \subseteq Nat \ {0} /\ UINT16_RANGE > 1
    /\ UINT16_RANGE % QUEUE_SIZE = 0

Request == [write : BOOLEAN, data : Buffer, sector : Sector]
Word == 0 .. UINT16_RANGE - 1   \* words from avail->ring[0] on
Status == {"ok", "error"}       \* what the device reports of a request

VARIABLES
    pc,                \* where the driver is
    req,               \* arguments of disk_create_request_sync, in its req
    desc,              \* of the data descriptor: addr, and the WRITE flag
    ring, idx,         \* entries the driver wrote to the avail ring and after it
    handler,           \* of interrupt 79: "none", or its sync is "live" or "freed"
    done, fmasked,     \* sync->done; PSTATE.F
    awake, last, irq,  \* the device: looks at the queue; next entry; interrupt
    status,            \* the byte after req, which the device writes and no code reads
    mem, disk,         \* contents of buffers and sectors
    moved              \* history: what the request in progress has to move

driver == <<pc, req, desc, ring, idx, handler, done, fmasked>>
device == <<awake, last, irq, status>>
diskVars == <<driver, device, mem, disk, moved>>

\* Before disk_init: start has unmasked FIQ, nothing is registered.
DiskInit ==
    /\ pc = "boot"
    /\ req \in {r \in Request : ~ r.write}
    /\ desc = [addr |-> NULL, write |-> FALSE]
    /\ ring = [w \in Word |-> NULL] /\ idx = 0
    /\ handler = "none" /\ done = FALSE /\ fmasked = FALSE
    /\ awake = FALSE /\ last = 0 /\ irq = FALSE /\ status \in Status
    /\ mem \in [Buffer -> Data] /\ disk \in [Sector -> Data]
    /\ moved \in Data

\* disk_init.  When it fails, its caller goes on with a disk whose queues were
\* never set: nothing is known of what follows.
disk_init ==
    /\ pc = "boot"
    /\ \E res \in -5 .. 0 : pc' = IF res = 0 THEN "idle" ELSE "lost"
    /\ UNCHANGED <<req, desc, ring, idx, handler, done, fmasked, device, mem, disk, moved>>

-----------------------------------------------------------------------------
\* The descriptors, mutated: the device may always write the data.
PrepareWritable(r) ==
    /\ pc = "idle" /\ fmasked = (handler # "none")
    /\ req' = r
    /\ desc' = [addr |-> r.data, write |-> TRUE]
    /\ ring' = [ring EXCEPT ![idx] = 0]
    /\ moved' = IF r.write THEN mem[r.data] ELSE disk[r.sector]
    /\ pc' = "prepared"
    /\ UNCHANGED <<idx, handler, done, fmasked, device, mem, disk>>

\* disk_create_request_sync up to avail->ring: only the address and the flag of
\* the data descriptor differ from request to request.  FIQ is masked, but for
\* the first request of all.
Prepare(r) ==
    /\ pc = "idle" /\ fmasked = (handler # "none")
    /\ req' = r
    /\ desc' = [addr |-> r.data, write |-> ~ r.write]
    /\ ring' = [ring EXCEPT ![idx] = 0]
    /\ moved' = IF r.write THEN mem[r.data] ELSE disk[r.sector]
    /\ pc' = "prepared"
    /\ UNCHANGED <<idx, handler, done, fmasked, device, mem, disk>>

\* avail->idx += 1; mb()
Publish ==
    /\ pc = "prepared"
    /\ idx' = (idx + 1) % UINT16_RANGE
    /\ pc' = "published"
    /\ UNCHANGED <<req, desc, ring, handler, done, fmasked, device, mem, disk, moved>>

gic_redistributor_set_handler(h) == handler' = h

\* A fresh sync, gic_redistributor_set_handler, sysutils_mask_fiq(false).
Register ==
    /\ pc = "published"
    /\ done' = FALSE
    /\ gic_redistributor_set_handler("live")
    /\ fmasked' = FALSE
    /\ pc' = "registered"
    /\ UNCHANGED <<req, desc, ring, idx, device, mem, disk, moved>>

\* VIRTIO_QUEUE_NOTIFY, mutated: not written.
NotifyNot ==
    /\ pc = "registered"
    /\ pc' = "wait"
    /\ UNCHANGED <<req, desc, ring, idx, handler, done, fmasked, device, mem, disk, moved>>

\* VIRTIO_QUEUE_NOTIFY
Notify ==
    /\ pc = "registered"
    /\ awake' = TRUE
    /\ pc' = "wait"
    /\ UNCHANGED <<req, desc, ring, idx, handler, done, fmasked, last, irq, status, mem, disk, moved>>

\* while (!sync->done) {}
Spin == pc = "wait" /\ ~ done /\ UNCHANGED diskVars

\* The loop ends; FIQ is masked and sync freed.  The handler stays registered.
Finish ==
    /\ pc = "wait" /\ done
    /\ fmasked' = TRUE
    /\ handler' = "freed"
    /\ pc' = "returned"
    /\ UNCHANGED <<req, desc, ring, idx, done, device, mem, disk, moved>>

\* The caller goes on; it may ask for more, or return to a user program, which
\* runs with FIQ unmasked until its next call.
Return ==
    /\ pc = "returned"
    /\ pc' = "idle"
    /\ UNCHANGED <<req, desc, ring, idx, handler, done, fmasked, device, mem, disk, moved>>

UserMode ==
    /\ pc = "idle" /\ handler # "none"
    /\ fmasked' = ~ fmasked
    /\ UNCHANGED <<pc, req, desc, ring, idx, handler, done, device, mem, disk, moved>>

\* disk_handle_interrupt_sync, mutated: the interrupt is not acknowledged.
FiqWithoutAck ==
    /\ irq /\ ~ fmasked /\ handler # "none"
    /\ done' = TRUE
    /\ UNCHANGED <<pc, req, desc, ring, idx, handler, fmasked, device, mem, disk, moved>>

\* disk_handle_interrupt_sync.
disk_handle_interrupt_sync ==
    /\ irq /\ ~ fmasked /\ handler # "none"
    /\ irq' = FALSE
    /\ done' = TRUE
    /\ UNCHANGED <<pc, req, desc, ring, idx, handler, fmasked, awake, last, status, mem, disk, moved>>

-----------------------------------------------------------------------------
(* The device (external): woken by a notification, it takes entries until   *)
(* it finds no new one and sleeps.  A request that fails is completed like  *)
(* any other, but leaves anything in the sector or the buffer.              *)
Transfer ==
    /\ disk' = IF req.write /\ ~ desc.write
               THEN [disk EXCEPT ![req.sector] = mem[desc.addr]] ELSE disk
    /\ mem' = IF ~ req.write /\ desc.write
              THEN [mem EXCEPT ![desc.addr] = disk[req.sector]] ELSE mem

Spoil ==
    \E d \in Data :
      /\ disk' = IF req.write THEN [disk EXCEPT ![req.sector] = d] ELSE disk
      /\ mem' = IF desc.write THEN [mem EXCEPT ![desc.addr] = d] ELSE mem

Serve ==
    /\ awake /\ last # idx
    /\ ring[last % QUEUE_SIZE] = 0
    /\ \/ status' = "ok" /\ Transfer
       \/ status' = "error" /\ Spoil
    /\ last' = (last + 1) % UINT16_RANGE
    /\ irq' = TRUE
    /\ UNCHANGED <<driver, awake, moved>>

Sleep ==
    /\ awake /\ last = idx
    /\ awake' = FALSE
    /\ UNCHANGED <<driver, last, irq, status, mem, disk, moved>>

Lost == pc = "lost" /\ UNCHANGED diskVars

DiskNext ==
    \/ disk_init \/ Lost
    \/ \E r \in Request : Prepare(r)
    \/ Publish \/ Register \/ Notify \/ Spin \/ Finish \/ Return
    \/ UserMode \/ disk_handle_interrupt_sync
    \/ Serve \/ Sleep

DiskSpec == DiskInit /\ [][DiskNext]_diskVars

\* The driver goes on, the device serves what it is told of, and a FIQ that is
\* pending and not masked is taken.
FairDiskSpec ==
    /\ DiskSpec
    /\ WF_diskVars(Publish \/ Register \/ Notify \/ Finish)
    /\ WF_diskVars(Serve)
    /\ WF_diskVars(disk_handle_interrupt_sync)

-----------------------------------------------------------------------------
(***************************************************************************)
(* Properties.                                                             *)
(***************************************************************************)

\* disk_create_request_sync returns when the sector has been read into the
\* caller's buffer, or written from it, and not before: done is set by the
\* completion of this request, not of the one before it, also where the device
\* takes the request before it is notified and where the indices wrap.  Only of a
\* request that the device reports as failed, which no caller can tell from the
\* others, nothing is said.
ReturnsWithDataMoved ==
    pc = "returned" /\ status = "ok" => mem[req.data] = moved /\ disk[req.sector] = moved

\* An interrupt of the disk that can be taken finds a handler, and the sync that
\* disk_handle_interrupt_sync sets done in has not been freed: the handler stays
\* registered with it after the request.
InterruptFindsSync == irq /\ ~ fmasked => handler = "live"

\* Every request returns: the device finds it in the ring, and its interrupt is
\* not lost, wherever it arrives with respect to set_handler and the unmasking, and
\* whatever status it reports.
RequestReturns == (pc = "prepared") ~> (pc = "returned")
=============================================================================
