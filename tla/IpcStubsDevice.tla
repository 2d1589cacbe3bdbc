--------------------------- MODULE IpcStubsDevice ---------------------------
(* The generated Dispatch functions (include/IpcStubs.hpp) of the interfaces
   for settings, buses and power: one definition per interface class, one
   element per group of commands that are laid out alike.  IpcShapes explains
   the notation. *)
EXTENDS IpcShapes

\* namespace nn::bpc
bpc_IBoardPowerControlManager == {
  Plain({0, 1, 10, 11}),
  Returns({2, 3, 6, 12}, 4),
  Returns({4}, 1),
  On({5, 7}, <<0, 1, 0>>, <<Data(8, 4)>>, <<Copied(0)>>),
  On({8}, <<0, 0, 4>>, <<Data(8, 8)>>, <<Data(8, 4)>>),
  Takes({9, 13}, 4)}
bpc_IRtcManager == {Returns({0}, 8), Takes({1}, 8), Returns({2}, 1), Plain({3, 4})}

\* namespace nn::fan::detail
fan_detail_IController == {
  Takes({0, 3}, 4),
  On({1}, <<0, 0, 4>>, <<Data(8, 4)>>, <<Data(8, 4)>>),
  Returns({2, 4, 7}, 4),
  Plain({5, 6})}
fan_detail_IManager == {On({0}, <<1, 0, 0>>, <<Data(8, 4)>>, <<Moved(0)>>)}

\* namespace nn::fgm::sf
fgm_sf_IDebugger == {
  On({0}, <<0, 1, 0>>, <<Data(8, 8), Copied(0)>>, <<Copied(0)>>),
  On({1}, <<0, 0, 12>>, <<>>, <<Data(8, 4), Data(12, 4), Data(16, 4), Buffer(6, 0)>>),
  Plain({2})}
fgm_sf_IRequest == {
  On({0}, <<0, 1, 0>>, <<Data(8, 4), Data(16, 8), Pid>>, <<Copied(0)>>),
  On({1}, <<0, 0, 0>>, <<Data(8, 4), Data(12, 4)>>, <<>>),
  Returns({2}, 4),
  Plain({3})}
fgm_sf_ISession == {Opens({0})}

\* namespace nn::gpio
gpio_IManager == {
  On(0..2, <<1, 0, 0>>, <<Data(8, 4)>>, <<Moved(0)>>),
  On({3}, <<0, 0, 1>>, <<Data(8, 4)>>, <<Data(8, 1)>>),
  Returns({4}, 16),
  On({5}, <<0, 0, 0>>, <<Data(8, 1), Data(12, 4)>>, <<>>),
  Takes({6}, 1)}
gpio_IPadSession == {
  Takes({0, 2, 8, 14}, 4),
  Returns({1, 3, 6, 9, 15}, 4),
  Takes({4, 12}, 1),
  Returns({5, 13}, 1),
  Plain({7, 11}),
  Event({10})}

\* namespace nn::i2c
i2c_IManager == {
  On({0}, <<1, 0, 0>>, <<Data(8, 2), Data(12, 4), Data(16, 4), Data(20, 4)>>, <<Moved(0)>>),
  On({1}, <<1, 0, 0>>, <<Data(8, 4)>>, <<Moved(0)>>),
  On({2}, <<0, 0, 1>>, <<Data(8, 4)>>, <<Data(8, 1)>>),
  On({3}, <<0, 0, 1>>, <<Data(8, 2), Data(12, 4), Data(16, 4), Data(20, 4)>>, <<Data(8, 1)>>)}
i2c_ISession == {
  On({0}, <<0, 0, 0>>, <<Data(8, 4), Buffer(5, 0)>>, <<>>),
  On({1}, <<0, 0, 0>>, <<Data(8, 4)>>, <<Buffer(6, 0)>>),
  On({2}, <<0, 0, 0>>, <<Buffer(9, 0)>>, <<Buffer(6, 0)>>),
  On({10}, <<0, 0, 0>>, <<Data(8, 4), Buffer(33, 0)>>, <<>>),
  On({11}, <<0, 0, 0>>, <<Data(8, 4)>>, <<Buffer(34, 0)>>),
  On({12}, <<0, 0, 0>>, <<Buffer(9, 0)>>, <<Buffer(34, 0)>>)}

\* namespace nn::pcie::detail
pcie_detail_IManager == {Plain({0, 1})}
pcie_detail_ISession == {
  Plain((3..15) \cup {0, 1, 17, 19}),
  Takes({2, 18}, 4),
  On({16, 20, 21}, <<0, 0, 0>>, <<Data(8, 1), Data(12, 4)>>, <<>>)}

\* namespace nn::pcv
pcv_IArbitrationManager == {Takes({0}, 4)}
pcv_IImmediateManager == {On({0}, <<0, 0, 0>>, <<Data(8, 4), Data(12, 4)>>, <<>>)}

\* namespace nn::pcv::detail
pcv_detail_IPcvService == {
  On({0, 1, 7, 8}, <<0, 0, 0>>, <<Data(8, 1), Data(12, 4)>>, <<>>),
  On({2, 6, 11, 18, 20}, <<0, 0, 0>>, <<Data(8, 4), Data(12, 4)>>, <<>>),
  On({3, 12}, <<0, 0, 4>>, <<Data(8, 4)>>, <<Data(8, 4)>>),
  On({4}, <<0, 0, 12>>, <<Data(8, 4)>>, <<Data(8, 12)>>),
  On({5}, <<0, 0, 8>>, <<Data(8, 4), Data(12, 4)>>, <<Data(8, 4), Data(12, 4), Buffer(10, 0)>>),
  On({9}, <<0, 0, 1>>, <<Data(8, 4)>>, <<Data(8, 1)>>),
  On({10}, <<0, 0, 12>>, <<Data(8, 4)>>, <<Data(8, 4), Data(12, 4), Data(16, 4)>>),
  On((24..26) \cup {13}, <<0, 0, 4>>, <<Data(8, 4)>>, <<Data(8, 4), Buffer(10, 0)>>),
  Takes({14, 19}, 4),
  Plain({15, 17}),
  Returns({16}, 1),
  Event({21}),
  Returns({22}, 4),
  On({23}, <<0, 0, 4>>, <<Data(8, 4), Data(12, 4)>>, <<Data(8, 4), Buffer(10, 0), Buffer(10, 1)>>)}

\* namespace nn::pinmux
pinmux_IManager == {On({0}, <<1, 0, 0>>, <<Data(8, 4)>>, <<Moved(0)>>)}
pinmux_ISession == {Takes({0, 2}, 4), Returns({1}, 4)}

\* namespace nn::psm
psm_IPsmServer == {
  Returns({0, 1, 12}, 4),
  Plain((8..11) \cup {2, 3, 5, 6, 17}),
  Returns({4, 14}, 1),
  Opens({7}),
  Returns({13, 15}, 8),
  Event({16, 18})}
psm_IPsmSession == {Event({0}), Plain({1}), Takes(2..4, 1)}

\* namespace nn::pwm
pwm_IChannelSession == {
  Takes({0}, 8),
  Returns({1}, 8),
  Takes({2}, 4),
  Returns({3}, 4),
  Takes({4}, 1),
  Returns({5}, 1)}
pwm_IManager == {On({0, 1}, <<1, 0, 0>>, <<Data(8, 4)>>, <<Moved(0)>>)}

\* namespace nn::sasbus
sasbus_IManager == {On({0}, <<1, 0, 0>>, <<Data(8, 4)>>, <<Moved(0)>>)}
sasbus_ISession == {Plain(0..3)}

\* namespace nn::settings
settings_IFactorySettingsServer == {
  On((2..6) \cup {0}, <<0, 0, 10>>, <<>>, <<Data(12, 6)>>),
  Returns({1}, 30),
  Returns({7}, 4),
  On({8}, <<0, 0, 4>>, <<>>, <<Data(8, 4), Buffer(10, 0)>>),
  Returns({9, 12}, 24),
  Takes({10, 11}, 8),
  On((14..19) \cup {21}, <<0, 0, 0>>, <<>>, <<Buffer(22, 0)>>),
  Returns({20}, 84),
  Returns({22}, 90)}
settings_IFirmwareDebugSettingsServer == {
  On({2}, <<0, 0, 0>>, <<Buffer(25, 0), Buffer(25, 1), Buffer(5, 0)>>, <<>>),
  On({3}, <<0, 0, 0>>, <<Buffer(25, 0), Buffer(25, 1)>>, <<>>),
  On({4}, <<1, 0, 0>>, <<Buffer(25, 0)>>, <<Moved(0)>>)}
settings_ISettingsItemKeyIterator == {
  Plain({0}),
  Returns({1}, 8),
  On({2}, <<0, 0, 8>>, <<>>, <<Data(8, 8), Buffer(6, 0)>>)}
settings_ISettingsServer == {
  Returns({0}, 8),
  On({1}, <<0, 0, 4>>, <<>>, <<Data(8, 4), Buffer(10, 0)>>),
  Returns({3, 4}, 4)}
settings_ISystemSettingsServer == {
  Takes({0, 50, 91, 105}, 8),
  On({1, 11, 22, 32, 98}, <<0, 0, 0>>, <<Buffer(5, 0)>>, <<>>),
  On({2, 12, 21, 31, 97}, <<0, 0, 4>>, <<>>, <<Data(8, 4), Buffer(6, 0)>>),
  On({3, 4, 41}, <<0, 0, 0>>, <<>>, <<Buffer(26, 0)>>),
  Returns({7, 25, 27, 45, 47, 60, 62, 65, 69, 73, 88, 95, 99, 101, 103, 111, 113, 115, 117}, 1),
  Takes({8, 26, 28, 46, 48, 61, 66, 70, 74, 89, 96, 100, 102, 104, 112, 114, 116, 118}, 1),
  Returns({9}, 40),
  Takes({10}, 40),
  Returns({13, 83, 90, 94}, 16),
  Takes({14}, 16),
  Returns({15, 39, 58, 75}, 32),
  Takes({16, 40, 59, 76}, 32),
  Returns({17, 23, 35, 63, 79, 80, 109, 120}, 4),
  Takes({18, 24, 36, 57, 64, 81, 110, 121}, 4),
  On({19}, <<0, 0, 8>>, <<Data(8, 4)>>, <<Data(8, 8)>>),
  On({20}, <<0, 0, 0>>, <<Data(8, 8), Data(16, 4)>>, <<>>),
  Returns({29, 67, 68, 84, 86}, 24),
  Takes({30, 85, 87}, 24),
  On({37}, <<0, 0, 8>>, <<Buffer(25, 0), Buffer(25, 1)>>, <<Data(8, 8)>>),
  On({38}, <<0, 0, 8>>, <<Buffer(25, 0), Buffer(25, 1)>>, <<Data(8, 8), Buffer(6, 0)>>),
  On({42}, <<0, 0, 0>>, <<Buffer(25, 0)>>, <<>>),
  On({43}, <<0, 0, 4>>, <<Data(8, 4)>>, <<Data(8, 4)>>),
  On({44}, <<0, 0, 0>>, <<Data(8, 4), Data(12, 4)>>, <<>>),
  Returns({49, 51, 52, 55, 92, 106}, 8),
  Returns({53}, 36),
  Takes({54}, 36),
  On({56}, <<0, 0, 8>>, <<>>, <<Data(8, 8), Buffer(6, 0)>>),
  Returns({71}, 12),
  Takes({72}, 12),
  On({77}, <<0, 0, 0>>, <<>>, <<Buffer(22, 0)>>),
  On({78}, <<0, 0, 0>>, <<Buffer(21, 0)>>, <<>>),
  Event({82, 93}),
  Returns({107}, 44),
  Takes({108}, 44),
  On({119}, <<0, 0, 3>>, <<Data(8, 1)>>, <<Data(8, 1), Data(9, 1), Data(10, 1)>>)}

\* namespace nn::spl::detail
spl_detail_IGeneralInterface == {
  On({0}, <<0, 0, 8>>, <<Data(8, 4)>>, <<Data(8, 8)>>),
  Plain((1..5) \cup (12..20) \cup {7, 9, 10, 24, 25}),
  Returns({11}, 1),
  Returns({21}, 4),
  Takes({22}, 4),
  Event({23})}
spl_detail_IRandomInterface == {On({0}, <<0, 0, 0>>, <<>>, <<Buffer(6, 0)>>)}

\* namespace nn::uart
uart_IManager == {
  On({0, 1}, <<0, 0, 1>>, <<Data(8, 4)>>, <<Data(8, 1)>>),
  Plain((2..5) \cup {7, 8}),
  Opens({6})}
uart_IPortSession == {
  Plain({0, 1, 3, 5, 6}),
  Returns({2, 4}, 8),
  On({7}, <<0, 0, 1>>, <<Data(8, 4)>>, <<Data(8, 1)>>)}

\* namespace nn::usb::ds
usb_ds_IDsEndpoint == {Plain(0..5)}
usb_ds_IDsInterface == {Plain(0..11)}
usb_ds_IDsService == {Plain(0..5)}

\* namespace nn::usb::hs
usb_hs_IClientEpSession == {Plain((3..6) \cup {0, 1}), Event({2})}
usb_hs_IClientIfSession == {Event({0, 6}), Plain((1..3) \cup (7..9) \cup {5}), Returns({4}, 4)}
usb_hs_IClientRootSession == {Plain((0..4) \cup {7}), Takes({5}, 1), Event({6})}

\* namespace nn::usb::pd::detail
usb_pd_detail_IPdCradleManager == {Opens({0})}
usb_pd_detail_IPdCradleSession == {
  On({0}, <<0, 0, 0>>, <<Data(8, 4), Data(12, 4)>>, <<>>),
  On({1}, <<0, 0, 4>>, <<Data(8, 4)>>, <<Data(8, 4)>>),
  Plain(2..6),
  Returns({7, 8}, 1)}
usb_pd_detail_IPdManager == {Opens({0})}
usb_pd_detail_IPdSession == {Event({0}), Plain({1, 2, 4, 5}), Returns({3}, 4), Takes({6}, 1)}

\* namespace nn::usb::pm
usb_pm_IPmService == {
  Event({0, 2}),
  Plain({1, 5}),
  Returns({3}, 4),
  On({4}, <<0, 0, 0>>, <<Data(8, 4), Data(12, 4)>>, <<>>)}

AllDeviceCommands ==
  UNION {bpc_IBoardPowerControlManager, bpc_IRtcManager, fan_detail_IController,
    fan_detail_IManager, fgm_sf_IDebugger, fgm_sf_IRequest, fgm_sf_ISession, gpio_IManager,
    gpio_IPadSession, i2c_IManager, i2c_ISession, pcie_detail_IManager,
    pcie_detail_ISession, pcv_IArbitrationManager, pcv_IImmediateManager,
    pcv_detail_IPcvService, pinmux_IManager, pinmux_ISession, psm_IPsmServer,
    psm_IPsmSession, pwm_IChannelSession, pwm_IManager, sasbus_IManager, sasbus_ISession,
    settings_IFactorySettingsServer, settings_IFirmwareDebugSettingsServer,
    settings_ISettingsItemKeyIterator, settings_ISettingsServer,
    settings_ISystemSettingsServer, spl_detail_IGeneralInterface,
    spl_detail_IRandomInterface, uart_IManager, uart_IPortSession, usb_ds_IDsEndpoint,
    usb_ds_IDsInterface, usb_ds_IDsService, usb_hs_IClientEpSession,
    usb_hs_IClientIfSession, usb_hs_IClientRootSession, usb_pd_detail_IPdCradleManager,
    usb_pd_detail_IPdCradleSession, usb_pd_detail_IPdManager, usb_pd_detail_IPdSession,
    usb_pm_IPmService}
=============================================================================
