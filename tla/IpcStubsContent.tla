--------------------------- MODULE IpcStubsContent ---------------------------
(* The generated Dispatch functions (include/IpcStubs.hpp) of the interfaces
   for file systems, content, installation and processes: one definition per
   interface class, one element per group of commands that are laid out alike.
   IpcShapes explains the notation. *)
EXTENDS IpcShapes

\* namespace nn::aocsrv::detail
aocsrv_detail_IAddOnContentManager == {
  On({0}, <<0, 0, 4>>, <<Data(8, 8)>>, <<Data(8, 4)>>),
  On({1}, <<0, 0, 4>>, <<Data(8, 4), Data(12, 4), Data(16, 8)>>, <<Data(8, 4), Buffer(6, 0)>>),
  On({2}, <<0, 0, 4>>, <<Data(8, 8), Pid>>, <<Data(8, 4)>>),
  On({3}, <<0, 0, 4>>, <<Data(8, 4), Data(12, 4), Data(16, 8), Pid>>, <<Data(8, 4), Buffer(6, 0)>>),
  On({4}, <<0, 0, 8>>, <<Data(8, 8)>>, <<Data(8, 8)>>),
  On({5}, <<0, 0, 8>>, <<Data(8, 8), Pid>>, <<Data(8, 8)>>),
  On({6}, <<0, 0, 0>>, <<Data(8, 4), Data(16, 8)>>, <<>>),
  On({7}, <<0, 0, 0>>, <<Data(8, 4), Data(16, 8), Pid>>, <<>>)}

\* namespace nn::arp::detail
arp_detail_IReader == {Plain(0..3)}
arp_detail_IRegistrar == {Takes({0}, 8), Takes({1}, 16), Plain({2})}
arp_detail_IWriter == {Opens({0}), Takes({1}, 8)}

\* namespace nn::capsrv::sf
capsrv_sf_IAlbumAccessorService == {
  Plain((0..14) \cup {301, 501, 1001, 1002, 8012, 8021}),
  Returns({401}, 1),
  Takes({8001, 8002, 8011, 10011}, 1)}
capsrv_sf_IAlbumControlService == {
  Takes({2001, 2002}, 1),
  On({2011, 2012}, <<0, 0, 0>>, <<Data(8, 8), Data(16, 8)>>, <<>>),
  On({2013}, <<0, 0, 8>>, <<Data(8, 8)>>, <<Data(8, 8)>>),
  Takes({2014}, 8),
  Plain({2101, 2102, 2201, 2301})}
capsrv_sf_IScreenShotApplicationService == {
  On({201}, <<0, 0, 32>>, <<Data(8, 4), Data(12, 4), Data(16, 8), Pid, Buffer(69, 0)>>, <<Data(8,
      32)>>),
  On({203}, <<0, 0, 32>>, <<Data(8, 64), Data(72, 4), Data(80, 8), Pid, Buffer(69, 0)>>, <<Data(8,
      32)>>)}
capsrv_sf_IScreenShotControlService == {
  Plain({1, 2, 1003, 1201, 1202}),
  On({1001}, <<0, 0, 0>>, <<Data(8, 8), Data(16, 8)>>, <<>>),
  On({1002}, <<0, 0, 0>>, <<Data(8, 8), Data(16, 8), Data(24, 8)>>, <<>>),
  Takes({1011, 1012}, 8),
  On({1203}, <<0, 0, 8>>, <<Data(8, 8)>>, <<Data(8, 8), Buffer(6, 0)>>)}
capsrv_sf_IScreenShotService == {Plain(201..204)}

\* namespace nn::fssrv::sf
fssrv_sf_IDeviceOperator == {
  Returns({0, 200}, 1),
  Returns({1, 3, 4, 101}, 8),
  On({2, 100, 114, 208, 214, 218}, <<0, 0, 0>>, <<Data(8, 8)>>, <<Buffer(6, 0)>>),
  On({5, 113}, <<0, 0, 24>>, <<Data(8, 8)>>, <<Data(8, 16), Data(24, 8), Buffer(6, 0)>>),
  Takes({110, 300}, 4),
  On({111}, <<0, 0, 8>>, <<Data(8, 4)>>, <<Data(8, 8)>>),
  Returns({112, 202, 301}, 4),
  On({201}, <<0, 0, 0>>, <<Data(8, 4), Data(16, 8)>>, <<>>),
  On({203}, <<0, 0, 16>>, <<Data(8, 4)>>, <<Data(8, 4), Data(16, 8)>>),
  Plain({204, 215}),
  On({205}, <<0, 0, 1>>, <<Data(8, 4)>>, <<Data(8, 1)>>),
  On({206, 211}, <<0, 0, 0>>, <<Data(8, 8), Data(16, 4)>>, <<Buffer(6, 0)>>),
  On({207, 212}, <<0, 0, 0>>, <<Data(8, 8), Data(16, 8), Buffer(5, 0)>>, <<Buffer(6, 0)>>),
  On({209}, <<0, 0, 0>>, <<Data(8, 8), Data(16, 8)>>, <<Buffer(6, 0)>>),
  Takes({210}, 1),
  On({213}, <<0, 0, 0>>, <<Data(8, 8), Buffer(5, 0)>>, <<>>),
  Returns({216}, 16),
  Returns({217}, 64)}
fssrv_sf_IDirectory == {On({0}, <<0, 0, 8>>, <<>>, <<Data(8, 8), Buffer(6, 0)>>), Returns({1}, 8)}
fssrv_sf_IEventNotifier == {Event({0})}
fssrv_sf_IFile == {
  On({0}, <<0, 0, 8>>, <<Data(8, 8), Data(16, 8), Data(24, 4)>>, <<Data(8, 8), Buffer(70, 0)>>),
  On({1}, <<0, 0, 0>>, <<Data(8, 8), Data(16, 8), Data(24, 4), Buffer(69, 0)>>, <<>>),
  Plain({2}),
  Takes({3}, 8),
  Returns({4}, 8)}
fssrv_sf_IFileSystem == {
  On({0}, <<0, 0, 0>>, <<Data(8, 8), Data(16, 4), Buffer(25, 0)>>, <<>>),
  On((1..4) \cup {13}, <<0, 0, 0>>, <<Buffer(25, 0)>>, <<>>),
  On({5, 6}, <<0, 0, 0>>, <<Buffer(25, 0), Buffer(25, 1)>>, <<>>),
  On({7}, <<0, 0, 4>>, <<Buffer(25, 0)>>, <<Data(8, 4)>>),
  On({8, 9}, <<1, 0, 0>>, <<Data(8, 4), Buffer(25, 0)>>, <<Moved(0)>>),
  Plain({10}),
  On({11, 12}, <<0, 0, 8>>, <<Buffer(25, 0)>>, <<Data(8, 8)>>),
  On({14}, <<0, 0, 32>>, <<Buffer(25, 0)>>, <<Data(8, 32)>>)}
fssrv_sf_IFileSystemProxy == {
  On({1}, <<0, 0, 0>>, <<Data(8, 8), Pid>>, <<>>),
  Opens({2, 18, 60, 200, 203, 400, 500, 501}),
  On({7}, <<1, 0, 0>>, <<Data(8, 8), Data(16, 4)>>, <<Moved(0)>>),
  On({8}, <<1, 0, 0>>, <<Data(8, 8), Data(16, 4), Buffer(25, 0)>>, <<Moved(0)>>),
  On({9, 201}, <<1, 0, 0>>, <<Data(8, 8)>>, <<Moved(0)>>),
  On({11}, <<1, 0, 0>>, <<Data(8, 4), Buffer(25, 0)>>, <<Moved(0)>>),
  On({12, 100, 110}, <<1, 0, 0>>, <<Data(8, 4)>>, <<Moved(0)>>),
  Plain({13, 19, 26, 605, 608, 1003}),
  On({17}, <<1, 0, 0>>, <<Buffer(25, 0)>>, <<Moved(0)>>),
  Takes({21, 600, 603, 604}, 8),
  On({22}, <<0, 0, 0>>, <<Data(8, 64), Data(72, 64), Data(136, 16)>>, <<>>),
  On({23}, <<0, 0, 0>>, <<Data(8, 64), Data(72, 64)>>, <<>>),
  On({24, 1006}, <<0, 0, 0>>, <<Buffer(5, 0)>>, <<>>),
  On({25}, <<0, 0, 0>>, <<Data(8, 1), Data(16, 8)>>, <<>>),
  Returns({27}, 1),
  On({30, 31}, <<1, 0, 0>>, <<Data(8, 4), Data(12, 4)>>, <<Moved(0)>>),
  On({32}, <<0, 0, 0>>, <<Data(8, 1), Data(16, 8), Data(24, 8), Data(32, 8)>>, <<>>),
  On(51..53, <<1, 0, 0>>, <<Data(8, 1), Data(16, 64)>>, <<Moved(0)>>),
  On({57}, <<0, 0, 0>>, <<Data(8, 1), Data(16, 8)>>, <<Buffer(6, 0)>>),
  On({58, 602}, <<0, 0, 0>>, <<Data(8, 8)>>, <<Buffer(6, 0)>>),
  On({59}, <<0, 0, 0>>, <<Data(8, 8), Data(16, 1), Buffer(5, 0)>>, <<>>),
  On({61}, <<1, 0, 0>>, <<Data(8, 1)>>, <<Moved(0)>>),
  On({80}, <<1, 0, 0>>, <<Data(8, 1), Data(16, 64), Data(80, 4)>>, <<Moved(0)>>),
  On({202}, <<1, 0, 0>>, <<Data(8, 8), Data(16, 1)>>, <<Moved(0)>>),
  On({601}, <<0, 0, 8>>, <<Data(8, 8), Data(16, 8)>>, <<Data(8, 8)>>),
  On({606}, <<0, 0, 16>>, <<Data(8, 8), Data(16, 1)>>, <<Data(8, 16)>>),
  On({607}, <<0, 0, 0>>, <<Data(8, 16), Data(24, 16)>>, <<>>),
  On({609}, <<0, 0, 16>>, <<Buffer(25, 0)>>, <<Data(8, 16)>>),
  On({610}, <<0, 0, 17>>, <<Buffer(25, 0)>>, <<Data(8, 16), Data(24, 1)>>),
  Takes({620}, 16),
  Returns({800}, 128),
  On({1000}, <<0, 0, 0>>, <<Data(8, 4), Buffer(25, 0)>>, <<>>),
  On({1001}, <<0, 0, 0>>, <<Data(8, 8), Data(16, 8)>>, <<>>),
  On({1002}, <<0, 0, 0>>, <<Buffer(25, 0)>>, <<>>),
  Takes({1004}, 4),
  Returns({1005}, 4)}
fssrv_sf_IFileSystemProxyForLoader == {
  On({0}, <<1, 0, 0>>, <<Data(8, 8), Buffer(25, 0)>>, <<Moved(0)>>),
  On({1}, <<0, 0, 1>>, <<Data(8, 8)>>, <<Data(8, 1)>>)}
fssrv_sf_IProgramRegistry == {
  On({0}, <<0, 0, 0>>, <<Data(8, 8), Data(16, 8), Data(24, 1), Data(32, 8), Data(40, 8), Buffer(5,
      0), Buffer(5, 1)>>, <<>>),
  Takes({1}, 8),
  Takes({256}, 1)}
fssrv_sf_ISaveDataInfoReader == {On({0}, <<0, 0, 8>>, <<>>, <<Data(8, 8), Buffer(6, 0)>>)}
fssrv_sf_IStorage == {
  On({0}, <<0, 0, 0>>, <<Data(8, 8), Data(16, 8)>>, <<Buffer(70, 0)>>),
  On({1}, <<0, 0, 0>>, <<Data(8, 8), Data(16, 8), Buffer(69, 0)>>, <<>>),
  Plain({2}),
  Takes({3}, 8),
  Returns({4}, 8)}

\* namespace nn::ldr::detail
ldr_detail_IShellInterface == {Plain({0, 1})}

\* namespace nn::lr
lr_IAddOnContentLocationResolver == {
  Plain({0, 2}),
  On({1}, <<0, 0, 0>>, <<Data(8, 1), Data(16, 8)>>, <<>>)}
lr_ILocationResolver == {Plain(0..9)}
lr_ILocationResolverManager == {Plain({0}), Opens({1, 3}), Takes({2}, 1)}
lr_IRegisteredLocationResolver == {Plain((3..5) \cup {0, 1, 7}), Takes({2, 6}, 8)}

\* namespace nn::ncm
ncm_IContentManager == {Takes((0..3) \cup (8..12), 1), Plain({4, 5})}
ncm_IContentMetaDatabase == {Plain(0..19)}
ncm_IContentStorage == {
  Returns({0}, 16),
  Plain((3..5) \cup (7..10) \cup (13..21) \cup {1, 24}),
  Takes({2, 6}, 16),
  On({11}, <<0, 0, 4>>, <<>>, <<Data(8, 4), Buffer(6, 0)>>),
  Returns({12}, 4),
  Returns({22, 23}, 8)}

\* namespace nn::nim::detail
nim_detail_IAsyncData == {Plain({0, 1, 3, 4}), Returns({2}, 8)}
nim_detail_IAsyncProgressResult == {Plain({0, 1}), Returns({2}, 16)}
nim_detail_IAsyncResult == {Plain({0, 1})}
nim_detail_IAsyncValue == {
  Returns({0}, 8),
  On({1}, <<0, 0, 0>>, <<>>, <<Buffer(6, 0)>>),
  Plain({2})}
nim_detail_INetworkInstallManager == {
  Plain((14..21) \cup (23..31) \cup (33..36) \cup (44..46) \cup {0, 3, 4, 6, 9, 10, 12, 38, 39, 42}),
  Takes({1, 5, 7, 11, 32, 37, 41}, 16),
  On({2, 8, 40}, <<0, 0, 4>>, <<>>, <<Data(8, 4), Buffer(6, 0)>>),
  Returns({22, 43}, 16)}
nim_detail_IShopServiceManager == {
  Plain((100..102) \cup (104..106) \cup (300..303) \cup {0, 1, 200, 400, 500, 501}),
  Returns({103}, 32),
  On({107}, <<0, 0, 1>>, <<Data(8, 8)>>, <<Data(8, 1)>>)}

\* namespace nn::ns::detail
ns_detail_IAccountProxyInterface == {Plain({0})}
ns_detail_IApplicationManagerInterface == {
  Plain((40..43) \cup (58..60) \cup (69..71) \cup (80..82) \cup (100..102) \cup (400..402) \cup (502..504) \cup (601..603) \cup (701..703) \cup (1000..1002) \cup {0, 3, 7, 8, 11, 16, 17, 21, 26, 30, 31, 47, 48, 200, 201, 210, 220, 507, 508, 605, 606, 705, 800, 802, 900, 901, 906, 908, 1301, 1304, 1400, 1500, 1502, 1504, 1505, 1601, 1700, 1701}),
  Returns({1, 304, 306, 1801}, 8),
  Event({2, 44, 45, 49, 52, 300, 505}),
  Takes((902..904) \cup {4, 5, 22, 27, 32, 33, 38, 39, 53, 54, 57, 64, 67, 68, 303, 305, 307, 404,
      907, 909, 1302, 1303}, 8),
  Returns({6, 506, 1200, 1501, 1800}, 1),
  On({9, 23}, <<0, 0, 0>>, <<Data(8, 1), Data(16, 8)>>, <<>>),
  On({19, 302}, <<0, 0, 8>>, <<Data(8, 8)>>, <<Data(8, 8)>>),
  On({35, 700}, <<0, 0, 0>>, <<Buffer(5, 0)>>, <<>>),
  On({36, 56, 905}, <<0, 0, 0>>, <<Data(8, 4), Data(16, 8)>>, <<>>),
  On({37, 301, 405, 704, 801, 1802, 1803}, <<0, 0, 4>>, <<>>, <<Data(8, 4), Buffer(6, 0)>>),
  Returns({46, 61, 66}, 16),
  On({55, 1900}, <<0, 0, 1>>, <<Data(8, 4)>>, <<Data(8, 1)>>),
  Opens({62, 65}),
  On({63, 1300, 1702}, <<0, 0, 1>>, <<Data(8, 8)>>, <<Data(8, 1)>>),
  Returns({403}, 4),
  On({600}, <<0, 0, 4>>, <<Data(8, 8)>>, <<Data(8, 4)>>),
  On({604}, <<0, 0, 0>>, <<Data(8, 8), Data(16, 8)>>, <<>>),
  Returns({1600}, 32)}
ns_detail_IAsyncResult == {Plain({0, 1})}
ns_detail_IAsyncValue == {Returns({0}, 8), On({1}, <<0, 0, 0>>, <<>>, <<Buffer(6, 0)>>), Plain({2})}
ns_detail_IContentManagementInterface == {
  Plain({11, 43, 47, 48, 601, 605}),
  On({600}, <<0, 0, 4>>, <<Data(8, 8)>>, <<Data(8, 4)>>),
  Returns({607}, 1)}
ns_detail_IDevelopInterface == {Plain((0..2) \cup (4..9))}
ns_detail_IDocumentInterface == {
  Plain({21}),
  On({23}, <<0, 0, 0>>, <<Data(8, 1), Data(16, 8)>>, <<>>)}
ns_detail_IDownloadTaskInterface == {
  Plain((701..703) \cup {705}),
  On({704}, <<0, 0, 4>>, <<>>, <<Data(8, 4), Buffer(6, 0)>>)}
ns_detail_IFactoryResetInterface == {Plain(100..102)}
ns_detail_IProgressAsyncResult == {Plain({0, 1, 3}), On({2}, <<0, 0, 0>>, <<>>, <<Buffer(6, 0)>>)}
ns_detail_IProgressMonitorForDeleteUserSaveDataAll == {
  Event({0}),
  Returns({1}, 1),
  Plain({2}),
  Returns({10}, 40)}
ns_detail_IServiceGetterInterface == {Opens(7994..7999)}
ns_detail_ISystemUpdateControl == {
  Returns({0, 7}, 1),
  Plain((8..13) \cup {1, 2, 4, 5}),
  Returns({3, 6}, 16)}
ns_detail_ISystemUpdateInterface == {
  Returns({0}, 1),
  Opens({1}),
  Plain((2..6) \cup {10, 11, 13, 15}),
  Event({9, 12, 14})}
ns_detail_IVulnerabilityManagerInterface == {Returns({1200}, 1)}

\* namespace nn::pl::detail
pl_detail_ISharedFontManager == {
  Takes({0}, 4),
  On(1..3, <<0, 0, 4>>, <<Data(8, 4)>>, <<Data(8, 4)>>),
  Event({4}),
  On({5}, <<0, 0, 8>>, <<Data(8, 8)>>, <<Data(8, 1), Data(12, 4), Buffer(6, 0), Buffer(6, 1),
      Buffer(6, 2)>>)}

\* namespace nn::pm::detail
pm_detail_IBootModeInterface == {Returns({0}, 4), Plain({1})}
pm_detail_IInformationInterface == {On({0}, <<0, 0, 8>>, <<Data(8, 8)>>, <<Data(8, 8)>>)}
pm_detail_IShellInterface == {
  Plain({0, 7}),
  Takes({1, 2, 5, 6}, 8),
  Event({3}),
  Returns({4}, 16),
  Returns({8}, 8)}

\* namespace nn::ro::detail
ro_detail_IDebugMonitorInterface == {Plain({0})}
ro_detail_IRoInterface == {
  On({0}, <<0, 0, 8>>, <<Data(8, 8), Data(16, 8), Data(24, 8), Data(32, 8), Data(40, 8), Pid>>,
      <<Data(8, 8)>>),
  On({1, 3}, <<0, 0, 0>>, <<Data(8, 8), Data(16, 8), Pid>>, <<>>),
  On({2}, <<0, 0, 0>>, <<Data(8, 8), Data(16, 8), Data(24, 8), Pid>>, <<>>),
  On({4}, <<0, 0, 0>>, <<Data(8, 8), Pid, Copied(0)>>, <<>>)}

AllContentCommands ==
  UNION {aocsrv_detail_IAddOnContentManager, arp_detail_IReader, arp_detail_IRegistrar,
    arp_detail_IWriter, capsrv_sf_IAlbumAccessorService, capsrv_sf_IAlbumControlService,
    capsrv_sf_IScreenShotApplicationService, capsrv_sf_IScreenShotControlService,
    capsrv_sf_IScreenShotService, fssrv_sf_IDeviceOperator, fssrv_sf_IDirectory,
    fssrv_sf_IEventNotifier, fssrv_sf_IFile, fssrv_sf_IFileSystem,
    fssrv_sf_IFileSystemProxy, fssrv_sf_IFileSystemProxyForLoader,
    fssrv_sf_IProgramRegistry, fssrv_sf_ISaveDataInfoReader, fssrv_sf_IStorage,
    ldr_detail_IShellInterface, lr_IAddOnContentLocationResolver, lr_ILocationResolver,
    lr_ILocationResolverManager, lr_IRegisteredLocationResolver, ncm_IContentManager,
    ncm_IContentMetaDatabase, ncm_IContentStorage, nim_detail_IAsyncData,
    nim_detail_IAsyncProgressResult, nim_detail_IAsyncResult, nim_detail_IAsyncValue,
    nim_detail_INetworkInstallManager, nim_detail_IShopServiceManager,
    ns_detail_IAccountProxyInterface, ns_detail_IApplicationManagerInterface,
    ns_detail_IAsyncResult, ns_detail_IAsyncValue, ns_detail_IContentManagementInterface,
    ns_detail_IDevelopInterface, ns_detail_IDocumentInterface,
    ns_detail_IDownloadTaskInterface, ns_detail_IFactoryResetInterface,
    ns_detail_IProgressAsyncResult, ns_detail_IProgressMonitorForDeleteUserSaveDataAll,
    ns_detail_IServiceGetterInterface, ns_detail_ISystemUpdateControl,
    ns_detail_ISystemUpdateInterface, ns_detail_IVulnerabilityManagerInterface,
    pl_detail_ISharedFontManager, pm_detail_IBootModeInterface,
    pm_detail_IInformationInterface, pm_detail_IShellInterface,
    ro_detail_IDebugMonitorInterface, ro_detail_IRoInterface}
=============================================================================
