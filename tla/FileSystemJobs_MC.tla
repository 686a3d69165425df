-------------------------- MODULE FileSystemJobs_MC --------------------------
(* FileSystemJobs with every class of file system on the partition. *)
EXTENDS FileSystemJobs

MCFirstTypes == Types
MCOtherTypes == {"btrfs"}
==============================================================================
