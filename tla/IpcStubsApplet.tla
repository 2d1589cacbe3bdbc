--------------------------- MODULE IpcStubsApplet ---------------------------
(* The generated Dispatch functions (include/IpcStubs.hpp) of the interfaces
   for applets, applications, time and system monitoring: one definition per
   interface class, one element per group of commands that are laid out alike.
   IpcShapes explains the notation. *)
EXTENDS IpcShapes

\* no namespace
SmService == {Plain({0}), On({1, 2}, <<1, 0, 0>>, <<Data(8, 8)>>, <<Moved(0)>>), Takes({3}, 8)}

\* namespace nn::am::service
am_service_IAllSystemAppletProxiesService == {
  On({100, 200, 300, 350}, <<1, 0, 0>>, <<Data(8, 8), Pid, Copied(0)>>, <<Moved(0)>>),
  On({201}, <<1, 0, 0>>, <<Data(8, 8), Pid, Copied(0), Buffer(21, 0)>>, <<Moved(0)>>),
  On({400}, <<1, 0, 0>>, <<Data(8, 8), Pid>>, <<Moved(0)>>)}
am_service_IAppletAccessor == {Event({0}), Returns({1}, 1), Plain({10, 20, 25, 30})}
am_service_IApplicationAccessor == {
  Event({0}),
  Returns({1, 111}, 1),
  Plain({10, 20, 25, 30, 101, 110}),
  Opens({112}),
  Returns({120}, 8),
  On({121}, <<0, 0, 0>>, <<Data(8, 4), Moved(0)>>, <<>>),
  On({122, 123}, <<0, 0, 0>>, <<>>, <<Buffer(6, 0)>>)}
am_service_IApplicationCreator == {
  On({0, 10}, <<1, 0, 0>>, <<Data(8, 8)>>, <<Moved(0)>>),
  Opens({1, 100})}
am_service_IApplicationFunctions == {
  On({1}, <<1, 0, 0>>, <<Data(8, 4)>>, <<Moved(0)>>),
  On({10}, <<0, 0, 0>>, <<Data(8, 8), Moved(0)>>, <<>>),
  On({11}, <<0, 0, 0>>, <<Data(8, 4), Data(12, 4), Data(16, 8), Moved(0)>>, <<>>),
  On({20}, <<0, 0, 8>>, <<Data(8, 16)>>, <<Data(8, 8)>>),
  Returns({21}, 8),
  Takes({22, 67}, 4),
  Returns({23, 50}, 16),
  On({24}, <<0, 0, 2>>, <<>>, <<Data(8, 1), Data(9, 1)>>),
  On({25}, <<0, 0, 8>>, <<Data(8, 1), Data(16, 16), Data(32, 8), Data(40, 8)>>, <<Data(8, 8)>>),
  On({26}, <<0, 0, 16>>, <<Data(8, 1), Data(16, 16)>>, <<Data(8, 8), Data(16, 8)>>),
  Takes({30, 32}, 8),
  Plain({31, 33, 70, 71}),
  Returns({40, 65}, 1),
  Takes({60}, 1),
  On({66}, <<0, 0, 0>>, <<Data(8, 8), Copied(0)>>, <<>>)}
am_service_IApplicationProxy == {Opens((0..4) \cup {10, 11, 20, 1000})}
am_service_IApplicationProxyService == {
  On({0}, <<1, 0, 0>>, <<Data(8, 8), Pid, Copied(0)>>, <<Moved(0)>>)}
am_service_IAudioController == {
  On({0}, <<0, 0, 0>>, <<Data(8, 4), Data(12, 4)>>, <<>>),
  Returns({1, 2}, 4),
  On({3}, <<0, 0, 0>>, <<Data(8, 4), Data(16, 8)>>, <<>>),
  Takes({4}, 4)}
am_service_ICommonStateGetter == {
  Event({0, 13, 61}),
  Returns({1, 6}, 4),
  Returns({2}, 8),
  Plain((10..12) \cup {3, 4}),
  Returns((7..9) \cup {5, 50, 55}, 1),
  On({20}, <<0, 0, 0>>, <<Moved(0)>>, <<>>),
  Opens({30}),
  On({31}, <<1, 0, 0>>, <<Data(8, 4)>>, <<Moved(0)>>),
  On({40}, <<0, 0, 16>>, <<>>, <<Data(8, 4), Data(12, 4), Data(16, 4), Data(20, 4)>>),
  Takes({51}, 1),
  On({60}, <<0, 0, 8>>, <<>>, <<Data(8, 4), Data(12, 4)>>)}
am_service_IDebugFunctions == {Takes({0, 10}, 4), Opens({1}), Plain({20})}
am_service_IDisplayController == {
  On({0, 2, 3}, <<0, 0, 0>>, <<>>, <<Buffer(6, 0)>>),
  Plain({1, 4, 11, 13, 15}),
  On(5..7, <<0, 0, 1>>, <<>>, <<Data(8, 1), Buffer(6, 0)>>),
  On({8}, <<0, 0, 0>>, <<Data(8, 1), Data(12, 4)>>, <<>>),
  Event({10, 12, 14}),
  On(16..18, <<0, 1, 1>>, <<>>, <<Data(8, 1), Copied(0)>>),
  On({20}, <<0, 0, 0>>, <<Data(8, 1), Data(12, 4), Data(16, 4)>>, <<>>),
  Takes({21}, 4)}
am_service_IGlobalStateController == {
  Plain({0, 1, 3, 4, 10, 11, 13}),
  Takes({2}, 1),
  Takes({12}, 8),
  Returns({14}, 1)}
am_service_IHomeMenuFunctions == {
  Plain(10..12),
  Opens({20, 30}),
  Event({21}),
  On({31}, <<1, 0, 0>>, <<Data(8, 4)>>, <<Moved(0)>>)}
am_service_ILibraryAppletAccessor == {
  Event({0, 105, 106}),
  Returns({1, 110}, 1),
  Plain({10, 20, 25, 30, 150}),
  Takes({50}, 1),
  On({100, 102, 103}, <<0, 0, 0>>, <<Moved(0)>>, <<>>),
  Opens({101, 104}),
  Returns({120}, 8),
  On({160}, <<0, 0, 8>>, <<Data(8, 8), Pid>>, <<Data(8, 8)>>)}
am_service_ILibraryAppletCreator == {
  On({0}, <<1, 0, 0>>, <<Data(8, 4), Data(12, 4)>>, <<Moved(0)>>),
  Plain({1}),
  Returns({2}, 1),
  On({10}, <<1, 0, 0>>, <<Data(8, 8)>>, <<Moved(0)>>),
  On({11}, <<1, 0, 0>>, <<Data(8, 1), Data(16, 8), Copied(0)>>, <<Moved(0)>>),
  On({12}, <<1, 0, 0>>, <<Data(8, 8), Copied(0)>>, <<Moved(0)>>)}
am_service_ILibraryAppletProxy == {Opens((0..4) \cup {10, 11, 20, 1000})}
am_service_ILibraryAppletSelfAccessor == {
  Opens({0, 2, 20}),
  On({1, 3, 30, 31}, <<0, 0, 0>>, <<Moved(0)>>, <<>>),
  Event({5, 6, 25}),
  Plain({10}),
  Returns({11, 40}, 8),
  Returns({12, 14}, 16),
  Returns({13, 16}, 1),
  On({15}, <<0, 0, 0>>, <<>>, <<Buffer(22, 0)>>),
  On({17}, <<0, 0, 4>>, <<>>, <<Data(8, 4), Buffer(6, 0)>>),
  Takes({50}, 8)}
am_service_ILockAccessor == {
  On({1}, <<0, 1, 1>>, <<Data(8, 1)>>, <<Data(8, 1), Copied(0)>>),
  Plain({2}),
  Event({3})}
am_service_IOverlayAppletProxy == {Opens((0..4) \cup {10, 11, 20, 1000})}
am_service_IOverlayFunctions == {
  Plain({0, 1}),
  Returns({2}, 8),
  Takes({3}, 8),
  Takes({4, 6}, 1),
  Takes({5}, 4)}
am_service_IProcessWindingController == {
  Returns({0}, 4),
  Opens({11, 22}),
  On({21, 40}, <<0, 0, 0>>, <<Moved(0)>>, <<>>),
  Plain({23, 30})}
am_service_ISelfController == {
  Plain((0..4) \cup {51, 65}),
  Event({9}),
  Takes({10, 19, 62, 64}, 4),
  Takes((16..18) \cup {11, 12, 14, 50, 61}, 1),
  On({13}, <<0, 0, 0>>, <<Data(8, 1), Data(9, 1), Data(10, 1)>>, <<>>),
  Takes({15}, 16),
  Returns({40}, 8),
  On({60}, <<0, 0, 0>>, <<Data(8, 4), Data(12, 4), Data(16, 4), Data(20, 4)>>, <<>>),
  Returns({63, 66}, 4),
  Returns({67}, 1)}
am_service_IStorage == {Opens({0, 1})}
am_service_IStorageAccessor == {
  Returns({0}, 8),
  On({10}, <<0, 0, 0>>, <<Data(8, 8), Buffer(33, 0)>>, <<>>),
  On({11}, <<0, 0, 0>>, <<Data(8, 8)>>, <<Buffer(34, 0)>>)}
am_service_ISystemAppletProxy == {Opens((0..4) \cup (20..22) \cup {10, 11, 1000})}
am_service_ITransferStorageAccessor == {
  Returns({0}, 8),
  On({1}, <<0, 1, 8>>, <<>>, <<Data(8, 8), Copied(0)>>)}
am_service_IWindow == {Plain({12345})}
am_service_IWindowController == {
  On({0}, <<1, 0, 0>>, <<Data(8, 4)>>, <<Moved(0)>>),
  Returns({1}, 8),
  Plain(10..12)}

\* namespace nn::apm
apm_IManager == {Opens({0}), Returns({1}, 4)}
apm_IManagerPrivileged == {Opens({0})}
apm_ISession == {
  On({0}, <<0, 0, 0>>, <<Data(8, 4), Data(12, 4)>>, <<>>),
  On({1}, <<0, 0, 4>>, <<Data(8, 4)>>, <<Data(8, 4)>>)}
apm_ISystemManager == {
  Takes({0}, 4),
  On({1}, <<0, 1, 0>>, <<Data(8, 4)>>, <<Copied(0)>>),
  Returns({2, 3}, 40),
  Plain({4})}

\* namespace nn::bgtc
bgtc_IStateControlService == {Returns({1}, 4), Event({2}), Plain({3, 4}), Takes({5}, 1)}
bgtc_ITaskService == {
  Plain({1, 2, 5, 13}),
  Event({3, 14}),
  Returns({4, 6, 102, 103}, 1),
  Takes({11}, 4),
  Returns({12, 101}, 4),
  On({15}, <<0, 0, 0>>, <<Data(8, 4), Data(12, 4)>>, <<>>)}

\* namespace nn::erpt::sf
erpt_sf_IContext == {Plain(0..5)}
erpt_sf_IManager == {Plain({0}), Event({1})}
erpt_sf_IReport == {
  Plain({0, 4}),
  On({1}, <<0, 0, 4>>, <<>>, <<Data(8, 4), Buffer(6, 0)>>),
  Takes({2}, 4),
  Returns({3}, 4),
  Returns({5}, 8)}
erpt_sf_ISession == {Opens({0, 1})}

\* namespace nn::es
es_IETicketService == {
  Plain((13..21) \cup {1, 5, 6, 8}),
  On({2, 3, 7}, <<0, 0, 0>>, <<Buffer(5, 0)>>, <<>>),
  Takes({4}, 4),
  Returns({9, 10}, 4),
  On({11, 12}, <<0, 0, 4>>, <<>>, <<Data(8, 4), Buffer(6, 0)>>)}

\* namespace nn::eupld::sf
eupld_sf_IControl == {On({0, 1}, <<0, 0, 0>>, <<Buffer(5, 0)>>, <<>>), Plain({2, 3})}
eupld_sf_IRequest == {
  Event({0}),
  Plain({1, 4, 5}),
  On({2}, <<0, 0, 0>>, <<Buffer(5, 0)>>, <<>>),
  On({3}, <<0, 0, 0>>, <<>>, <<Buffer(6, 0)>>)}

\* namespace nn::fatalsrv
fatalsrv_IPrivateService == {Event({0})}
fatalsrv_IService == {Plain(0..2)}

\* namespace nn::htc::tenv
htc_tenv_IService == {
  On({0}, <<0, 0, 8>>, <<Data(8, 64)>>, <<Data(8, 8), Buffer(6, 0)>>),
  On({1}, <<0, 0, 8>>, <<Data(8, 64)>>, <<Data(8, 8)>>),
  Takes({2}, 8)}
htc_tenv_IServiceManager == {On({0}, <<1, 0, 0>>, <<Data(8, 8), Pid>>, <<Moved(0)>>)}

\* namespace nn::idle::detail
idle_detail_IPolicyManagerSystem == {Event({0}), Plain(1..5)}

\* namespace nn::lm
lm_ILogService == {On({0}, <<1, 0, 0>>, <<Data(8, 8), Pid>>, <<Moved(0)>>)}
lm_ILogger == {On({0}, <<0, 0, 0>>, <<Buffer(33, 0)>>, <<>>), Takes({1}, 4)}

\* namespace nn::ntc::detail::service
ntc_detail_service_IEnsureNetworkClockAvailabilityService == {
  Plain({0, 2, 3}),
  Event({1}),
  Returns({4}, 1),
  Returns({5}, 8)}
ntc_detail_service_IStaticService == {
  On({0}, <<1, 0, 0>>, <<Data(8, 4), Data(12, 4)>>, <<Moved(0)>>),
  Plain({100, 101})}

\* namespace nn::omm::detail
omm_detail_IOperationModeManager == {
  Returns({0, 5, 14}, 1),
  Event({1, 12}),
  Plain((2..4) \cup (6..9) \cup {11, 13}),
  Takes({10}, 1)}

\* namespace nn::ovln
ovln_IReceiver == {Takes({0, 1}, 16), Event({2}), Plain({3, 4})}
ovln_IReceiverService == {Opens({0})}
ovln_ISender == {Plain({0}), Returns({1}, 4)}
ovln_ISenderService == {Plain({0})}

\* namespace nn::pdm::detail
pdm_detail_INotifyService == {
  Plain({0, 4}),
  Takes({2, 3}, 1),
  On({5}, <<0, 0, 0>>, <<Buffer(5, 0)>>, <<>>)}
pdm_detail_IQueryService == {
  Plain((2..10) \cup {0}),
  On({1}, <<0, 0, 4>>, <<>>, <<Data(8, 4), Buffer(6, 0)>>)}

\* namespace nn::prepo::detail::ipc
prepo_detail_ipc_IPrepoService == {
  On({10100}, <<0, 0, 0>>, <<Data(8, 8), Pid, Buffer(9, 0), Buffer(5, 0)>>, <<>>),
  On({10101}, <<0, 0, 0>>, <<Data(8, 16), Data(24, 8), Pid, Buffer(9, 0), Buffer(5, 0)>>, <<>>),
  Plain({10200, 30100}),
  Returns({10300}, 4),
  On({20100}, <<0, 0, 0>>, <<Data(8, 8), Buffer(9, 0), Buffer(5, 0)>>, <<>>),
  On({20101}, <<0, 0, 0>>, <<Data(8, 16), Data(24, 8), Buffer(9, 0), Buffer(5, 0)>>, <<>>),
  Returns({40100}, 1),
  Takes({40101}, 1),
  On({90100}, <<0, 0, 16>>, <<>>, <<Data(8, 8), Data(16, 8)>>)}

\* namespace nn::psc::sf
psc_sf_IPmControl == {
  Event({0}),
  On({1}, <<0, 0, 0>>, <<Data(8, 4), Data(12, 4), Data(16, 4)>>, <<>>),
  Plain((4..6) \cup {2}),
  Returns({3}, 4)}
psc_sf_IPmModule == {Plain(0..3)}
psc_sf_IPmService == {Opens({0})}

\* namespace nn::sm::detail
sm_detail_IManagerInterface == {
  On({0}, <<0, 0, 0>>, <<Data(8, 8), Buffer(5, 0), Buffer(5, 1)>>, <<>>),
  Takes({1}, 8)}
sm_detail_IUserInterface == {
  On({0}, <<0, 0, 0>>, <<Data(8, 8), Pid>>, <<>>),
  On({1}, <<0, 1, 0>>, <<Data(8, 8)>>, <<Copied(0)>>),
  On({2}, <<0, 1, 0>>, <<Data(8, 8), Data(16, 1), Data(20, 4)>>, <<Copied(0)>>),
  Takes({3}, 8)}

\* namespace nn::spsm::detail
spsm_detail_IPowerStateInterface == {
  Returns({0, 2, 5}, 4),
  Event({1, 4}),
  Takes({3}, 1),
  Plain({6, 7, 10}),
  On({8}, <<0, 0, 0>>, <<>>, <<Buffer(6, 0)>>),
  Takes({9, 11}, 8)}

\* namespace nn::tc
tc_IManager == {
  Takes({0, 3, 4}, 4),
  On({1}, <<0, 1, 0>>, <<Data(8, 4)>>, <<Copied(0)>>),
  On({2}, <<0, 0, 1>>, <<Data(8, 4)>>, <<Data(8, 1)>>),
  On({5}, <<0, 0, 0>>, <<Data(8, 4), Data(12, 4)>>, <<>>),
  Plain({6, 7}),
  Returns({8}, 1)}

\* namespace nn::timesrv::detail::service
timesrv_detail_service_IStaticService == {Opens(0..4), Returns({100, 200}, 1), Takes({101}, 1)}
timesrv_detail_service_ISteadyClock == {
  Returns({0}, 24),
  Returns({2, 100, 200}, 8),
  Takes({3, 201}, 8),
  Returns({101}, 1),
  Returns({102}, 4)}
timesrv_detail_service_ISystemClock == {
  Returns({0}, 8),
  Takes({1}, 8),
  Returns({2}, 32),
  Takes({3}, 32)}
timesrv_detail_service_ITimeZoneService == {
  Returns({0}, 36),
  Takes({1}, 36),
  Returns({2}, 4),
  On({3}, <<0, 0, 4>>, <<Data(8, 4)>>, <<Data(8, 4), Buffer(6, 0)>>),
  On({4}, <<0, 0, 0>>, <<Data(8, 36)>>, <<Buffer(22, 0)>>),
  Returns({5}, 16),
  On({100}, <<0, 0, 32>>, <<Data(8, 8), Buffer(21, 0)>>, <<Data(8, 8), Data(16, 24)>>),
  On({101}, <<0, 0, 32>>, <<Data(8, 8)>>, <<Data(8, 8), Data(16, 24)>>),
  On({201}, <<0, 0, 4>>, <<Data(8, 8), Buffer(21, 0)>>, <<Data(8, 4), Buffer(10, 0)>>),
  On({202}, <<0, 0, 4>>, <<Data(8, 8)>>, <<Data(8, 4), Buffer(10, 0)>>)}

\* namespace nn::tma
tma_IHtcManager == {
  On({0}, <<0, 0, 4>>, <<Buffer(5, 0)>>, <<Data(8, 4), Buffer(6, 0)>>),
  On({1}, <<0, 0, 4>>, <<Buffer(5, 0)>>, <<Data(8, 4)>>),
  Event(2..5),
  On({6, 7}, <<0, 0, 0>>, <<>>, <<Buffer(6, 0)>>),
  Takes({8}, 1)}
tma_IHtcsManager == {
  On({0}, <<0, 0, 8>>, <<>>, <<Data(8, 4), Data(12, 4)>>),
  On({1}, <<0, 0, 8>>, <<Data(8, 4)>>, <<Data(8, 4), Data(12, 4)>>),
  On({2, 3}, <<0, 0, 8>>, <<Data(8, 66), Data(76, 4)>>, <<Data(8, 4), Data(12, 4)>>),
  On({4, 8}, <<0, 0, 8>>, <<Data(8, 4), Data(12, 4)>>, <<Data(8, 4), Data(12, 4)>>),
  On({5}, <<0, 0, 76>>, <<Data(8, 4)>>, <<Data(8, 68), Data(76, 4), Data(80, 4)>>),
  On({6}, <<0, 0, 16>>, <<Data(8, 4), Data(12, 4)>>, <<Data(8, 4), Data(16, 8), Buffer(6, 0)>>),
  On({7}, <<0, 0, 16>>, <<Data(8, 4), Data(12, 4), Buffer(5, 0)>>, <<Data(8, 4), Data(16, 8)>>),
  On({9}, <<0, 0, 8>>, <<Data(8, 4), Data(12, 4), Data(16, 4)>>, <<Data(8, 4), Data(12, 4)>>),
  Returns({10, 11}, 32),
  On({12}, <<1, 0, 4>>, <<>>, <<Data(8, 4), Moved(0)>>),
  On({13}, <<1, 0, 4>>, <<Data(8, 1)>>, <<Data(8, 4), Moved(0)>>),
  On({100, 101}, <<0, 0, 0>>, <<Data(8, 8), Pid>>, <<>>)}
tma_ISocket == {
  On({0}, <<0, 0, 8>>, <<>>, <<Data(8, 4), Data(12, 4)>>),
  On({1, 2}, <<0, 0, 8>>, <<Data(8, 66)>>, <<Data(8, 4), Data(12, 4)>>),
  On({3, 7}, <<0, 0, 8>>, <<Data(8, 4)>>, <<Data(8, 4), Data(12, 4)>>),
  On({4}, <<1, 0, 72>>, <<>>, <<Data(8, 68), Data(76, 4), Moved(0)>>),
  On({5, 12}, <<0, 0, 16>>, <<Data(8, 4)>>, <<Data(8, 4), Data(16, 8), Buffer(34, 0)>>),
  On({6}, <<0, 0, 16>>, <<Data(8, 4), Buffer(33, 0)>>, <<Data(8, 4), Data(16, 8)>>),
  On({8}, <<0, 0, 8>>, <<Data(8, 4), Data(12, 4)>>, <<Data(8, 4), Data(12, 4)>>),
  On({9}, <<0, 1, 4>>, <<>>, <<Data(8, 4), Copied(0)>>),
  On({10}, <<1, 0, 72>>, <<Data(8, 4)>>, <<Data(8, 68), Data(76, 4), Moved(0)>>),
  On({11}, <<0, 1, 4>>, <<Data(8, 4), Data(12, 4)>>, <<Data(8, 4), Copied(0)>>),
  On({13}, <<0, 1, 4>>, <<Data(8, 4), Data(12, 4), Data(16, 4), Data(24, 8), Copied(0)>>, <<Data(8,
      4), Copied(0)>>),
  On({14}, <<0, 1, 4>>, <<Data(8, 4), Buffer(33, 0)>>, <<Data(8, 4), Copied(0)>>),
  On({15}, <<0, 1, 4>>, <<Data(8, 4), Data(16, 8), Copied(0), Buffer(33, 0), Buffer(33, 1)>>,
      <<Data(8, 4), Copied(0)>>),
  On({16}, <<0, 0, 16>>, <<Data(8, 4)>>, <<Data(8, 4), Data(16, 8)>>)}

\* namespace nn::ts::server
ts_server_IMeasurementServer == {Plain(0..3)}

AllAppletCommands ==
  UNION {SmService, am_service_IAllSystemAppletProxiesService, am_service_IAppletAccessor,
    am_service_IApplicationAccessor, am_service_IApplicationCreator,
    am_service_IApplicationFunctions, am_service_IApplicationProxy,
    am_service_IApplicationProxyService, am_service_IAudioController,
    am_service_ICommonStateGetter, am_service_IDebugFunctions,
    am_service_IDisplayController, am_service_IGlobalStateController,
    am_service_IHomeMenuFunctions, am_service_ILibraryAppletAccessor,
    am_service_ILibraryAppletCreator, am_service_ILibraryAppletProxy,
    am_service_ILibraryAppletSelfAccessor, am_service_ILockAccessor,
    am_service_IOverlayAppletProxy, am_service_IOverlayFunctions,
    am_service_IProcessWindingController, am_service_ISelfController, am_service_IStorage,
    am_service_IStorageAccessor, am_service_ISystemAppletProxy,
    am_service_ITransferStorageAccessor, am_service_IWindow, am_service_IWindowController,
    apm_IManager, apm_IManagerPrivileged, apm_ISession, apm_ISystemManager,
    bgtc_IStateControlService, bgtc_ITaskService, erpt_sf_IContext, erpt_sf_IManager,
    erpt_sf_IReport, erpt_sf_ISession, es_IETicketService, eupld_sf_IControl,
    eupld_sf_IRequest, fatalsrv_IPrivateService, fatalsrv_IService, htc_tenv_IService,
    htc_tenv_IServiceManager, idle_detail_IPolicyManagerSystem, lm_ILogService, lm_ILogger,
    ntc_detail_service_IEnsureNetworkClockAvailabilityService,
    ntc_detail_service_IStaticService, omm_detail_IOperationModeManager, ovln_IReceiver,
    ovln_IReceiverService, ovln_ISender, ovln_ISenderService, pdm_detail_INotifyService,
    pdm_detail_IQueryService, prepo_detail_ipc_IPrepoService, psc_sf_IPmControl,
    psc_sf_IPmModule, psc_sf_IPmService, sm_detail_IManagerInterface,
    sm_detail_IUserInterface, spsm_detail_IPowerStateInterface, tc_IManager,
    timesrv_detail_service_IStaticService, timesrv_detail_service_ISteadyClock,
    timesrv_detail_service_ISystemClock, timesrv_detail_service_ITimeZoneService,
    tma_IHtcManager, tma_IHtcsManager, tma_ISocket, ts_server_IMeasurementServer}
=============================================================================
