--------------------------- MODULE VehicleCatalog ---------------------------
(***************************************************************************)
(* The official models, twice: the registry of the backend                 *)
(* (services/demand/capability.py CANONICAL_MODEL_CATALOG) and the table   *)
(* the dataset generator writes to vehicle_model_catalog.csv               *)
(* (generators/06_domain_correct_vinfast_capability.py CATALOG_MODELS).    *)
(* Energies are in watt-hours; names, architectures and sources are left   *)
(* out.                                                                    *)
(***************************************************************************)
EXTENDS Energy, TLC

Model(category, battery, usable, module, modules, consumption) ==
  [category |-> category, battery |-> battery, usable |-> usable, module |-> module,
   modules |-> modules, swap |-> module # None, consumption |-> consumption]

Car(battery, usable, consumption) == Model("EV_CAR", battery, usable, None, 0, consumption)

Cars ==
  [VF_3        |-> Car(18640, 17150, 95),    VF_5      |-> Car(37230, 34250, 125),
   HERIO_GREEN |-> Car(37230, 34250, 125),   VF_6      |-> Car(59600, 54830, 145),
   VF_7_ECO    |-> Car(59600, 54830, 155),   VF_7_PLUS |-> Car(75300, 69280, 170),
   VF_8        |-> Car(87700, 80680, 195),   VF_9      |-> Car(123000, 113160, 235),
   VF_E34      |-> Car(41900, 38550, 135),   NERIO_GREEN |-> Car(41900, 38550, 135)]

FixedBike(consumption) == Model("EV_MOTORBIKE", 3500, 3220, None, 0, consumption)

FixedBikes == [EVO200 |-> FixedBike(40), EVO200_LITE |-> FixedBike(40), FELIZ_S |-> FixedBike(42),
               KLARA_S_2022 |-> FixedBike(45), VENTO_S |-> FixedBike(45)]

SwapBike(battery, usable, consumption) == Model("EV_MOTORBIKE", battery, usable, 1500, 2, consumption)

SwapBikes == [EVO |-> SwapBike(3000, 2760, 38), EVO_LITE |-> SwapBike(1500, 1380, 38),
              FELIZ_II |-> SwapBike(3000, 2760, 40), VIPER |-> SwapBike(1500, 1380, 38)]

Canonical == Cars @@ FixedBikes @@ SwapBikes

(* charging_interface_class and swap_battery_family.                       *)
Plug == [m \in DOMAIN Canonical |->
           IF m \in DOMAIN Cars THEN "CCS2_TYPE2" ELSE "VINFAST_MOTORCYCLE_CHARGING"]
SwapFamily == [m \in DOMAIN Canonical |->
                 IF m \in DOMAIN SwapBikes THEN "VINFAST_SWAP_LFP_1_5_KWH" ELSE None]

(* The power a model charges with (replenishment.py): that of its          *)
(* category, for a VF 3 no more than its official peak.                    *)
ChargePower(car, bike, peak) ==
  [m \in DOMAIN Canonical |->
     IF m \notin DOMAIN Cars THEN bike ELSE IF m = "VF_3" /\ peak < car THEN peak ELSE car]

-----------------------------------------------------------------------------
(* The table of the dataset.  The battery of a swap model is that of the   *)
(* modules installed in a vehicle: the table has none.                     *)
CatalogEntry(category, battery, module, modules) ==
  [category |-> category, battery |-> battery, module |-> module, modules |-> modules,
   swap |-> module # None]

CatalogCars ==
  LET car(battery) == CatalogEntry("EV_CAR", battery, None, 0)
  IN  [VF_3 |-> car(18640), VF_5 |-> car(37230), HERIO_GREEN |-> car(37230), VF_6 |-> car(59600),
       VF_7_ECO |-> car(59600), VF_7_PLUS |-> car(75300), VF_8 |-> car(87700),
       VF_9 |-> car(123000), VF_E34 |-> car(41900), NERIO_GREEN |-> car(41900)]

CatalogFixedBikes ==
  [m \in {"EVO200", "EVO200_LITE", "FELIZ_S", "KLARA_S_2022", "VENTO_S"} |->
     CatalogEntry("EV_MOTORBIKE", 3500, None, 0)]

CatalogSwapBikes ==
  [m \in {"EVO", "EVO_LITE", "FELIZ_II", "VIPER"} |-> CatalogEntry("EV_MOTORBIKE", None, 1500, 2)]

CatalogModels == CatalogCars @@ CatalogFixedBikes @@ CatalogSwapBikes

UsablePct == 92          \* USABLE_RATIO

(* What capability.py:28 says of the two ("Defined byte-for-byte           *)
(* consistent"): the same models, and what both state of one is the same.  *)
(* The usable capacity is the dataset's ratio, rounded to ten watt-hours.  *)
ASSUME CatalogsAgree ==
  /\ DOMAIN Canonical = DOMAIN CatalogModels
  /\ \A m \in DOMAIN Canonical :
       LET c == Canonical[m]
           row == CatalogModels[m]
       IN  /\ \A field \in {"category", "module", "modules", "swap"} : c[field] = row[field]
           /\ row.battery \in {c.battery, None}
           /\ 100 * c.usable - UsablePct * c.battery \in -500..500
=============================================================================
