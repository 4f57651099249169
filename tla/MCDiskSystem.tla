----------------------------- MODULE MCDiskSystem ------------------------------
(* DiskSystem with two cylinders of two sides with two sectors of two units, a     *)
(* second drive that is write protected, and a hard disk of four sectors.         *)
EXTENDS DiskSystem

\* READ DATA and WRITE DATA of drive d: cylinder, side, record, EOT, code N.
ReadWrite(code, d, c, h, r, n, eot) == <<code, 4 * h + d, c, h, r, n, eot, 0, 0>>

\* Transfers of both sides, of one sector, from the middle of a track, with the
\* wrong sector size and on the wrong cylinder; the positioning; the odd ones.
MCFdcCommands ==
    {ReadWrite(6 + MultiTrack, 0, 0, 0, 2, 1, 2), ReadWrite(6, 0, 1, 0, 1, 1, 2),
     ReadWrite(6, 0, 0, 0, 1, 2, 2),
     ReadWrite(5, 0, 0, 0, 1, 1, 2), ReadWrite(5, 0, 0, 0, 2, 1, 2),
     ReadWrite(5 + MultiTrack, 0, 0, 0, 2, 1, 2), ReadWrite(5, 1, 0, 0, 1, 1, 2),
     <<Seek, 0, 1>>, <<Seek, 0, 9>>, <<Recalibrate, 0>>, <<Recalibrate, 2>>,
     <<Specify, 0, 0>>, <<SenseDriveStatus, 0>>, <<ReadId, 0>>, <<31>>,
     ReadWrite(ReadTrack, 0, 0, 0, 1, 1, 2)}

SasiCommand(code, lba, count) == <<code, 0, 0, lba, count, 0>>
MCSasiCommands ==
    {SasiCommand(SasiTestUnitReady, 0, 0), SasiCommand(SasiRequestSense, 0, 0),
     SasiCommand(SasiSpecify, 0, 0),
     SasiCommand(SasiRead, 1, 2), SasiCommand(SasiRead, 3, 2), SasiCommand(SasiRead, 0, 0),
     SasiCommand(SasiWrite, 1, 2), SasiCommand(SasiWrite, 3, 2), SasiCommand(SasiWrite, 0, 1)}

================================================================================
