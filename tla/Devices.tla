------------------------------- MODULE Devices -------------------------------
(***************************************************************************)
(* Which device and which mount point hold a path, and how many threads    *)
(* read from a device: DiskDevices of src/fclones/src/device.rs.           *)
(*                                                                         *)
(* What the operating system lists is a sequence of disks [name, kind,     *)
(* mountPoint].  The name is that of the whole disk, of which there may be *)
(* several partitions; a path is a sequence of components, see             *)
(* PathText.tla.  A kind is "ssd", "hdd" or "unknown".                     *)
(***************************************************************************)
EXTENDS Integers, SequencesExt

LOCAL Texts == INSTANCE PathText WITH Failed <- "failed"

\* add_device: the first partition of a disk decides on its kind.
add_device(devices, disk) ==
  IF \E d \in ToSet(devices) : d.name = disk.name THEN devices
  ELSE Append(devices, [name |-> disk.name, kind |-> disk.kind])

\* DiskDevices::new; the first device is for paths no disk holds.
DiskDevices(disks) == FoldLeft(add_device, <<[name |-> "default", kind |-> "unknown"]>>, disks)

LOCAL Holding(disks, path) ==
  {i \in DOMAIN disks : Texts!is_prefix_of(disks[i].mountPoint, path)}

\* mount_points is sorted by falling depth; equal depths stay in their order.
LOCAL First(disks, some) ==
  LET depth(i) == Texts!component_count(disks[i].mountPoint)
  IN CHOOSE i \in some : \A j \in some : depth(j) < depth(i) \/ (depth(j) = depth(i) /\ i <= j)

get_by_path(disks, path) ==
  LET devices == DiskDevices(disks)
      holding == Holding(disks, path)
  IN IF holding = {} THEN devices[1]
     ELSE CHOOSE d \in ToSet(devices) : d.name = disks[First(disks, holding)].name

\* A path that no disk holds gets the first of the mount points.
get_mount_point(disks, path) ==
  LET holding == Holding(disks, path)
  IN disks[First(disks, IF holding = {} THEN DOMAIN disks ELSE holding)].mountPoint

\* FsCommand of a move: rename, or copy and remove.
are_on_same_mount(disks, file1, file2) ==
  get_mount_point(disks, file1) = get_mount_point(disks, file2)

-----------------------------------------------------------------------------

\* Parallelism::default_for
default_for(kind, cpus) ==
  [random |-> IF kind = "hdd" THEN 1 ELSE 4 * cpus, sequential |-> IF kind = "ssd" THEN 4 * cpus ELSE 1]

\* pools is what --threads gives: dev by the name of a device (dev:<name>), kind by
\* its kind, or under "default".
get_parallelism(pools, device, cpus) ==
  CASE device.name \in DOMAIN pools.dev -> pools.dev[device.name]
    [] device.name \notin DOMAIN pools.dev /\ device.kind \in DOMAIN pools.kind ->
         pools.kind[device.kind]
    [] device.name \notin DOMAIN pools.dev /\ device.kind \notin DOMAIN pools.kind ->
         IF "default" \in DOMAIN pools.kind THEN pools.kind["default"]
         ELSE default_for(device.kind, cpus)

=============================================================================
