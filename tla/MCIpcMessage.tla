---------------------------- MODULE MCIpcMessage ----------------------------
(* IpcMessage for every command of every interface that nsemu generates a  *)
(* Dispatch for.                                                           *)
EXTENDS IpcMessage, IpcStubsApplet, IpcStubsAccount, IpcStubsContent,
        IpcStubsNetwork, IpcStubsMedia, IpcStubsDevice

MCCommands ==
  Shapes(AllAppletCommands \cup AllAccountCommands \cup AllContentCommands
         \cup AllNetworkCommands \cup AllMediaCommands \cup AllDeviceCommands)
=============================================================================
